---- MODULE Spec2Model ----
(***************************************************************************)
(* A model of the plasma storage engine of nitro: the page (delta chain),  *)
(* the MVCC overlay (snapshots, filters, recovery points, rollback) and    *)
(* the Persist pipeline.  Each part has its own specification over the     *)
(* shared variables:                                                       *)
(*   SpecPage    record operations and Compact on a page (page.go)         *)
(*   SpecStruct  Split, Merge, flush and Marshal on two pages (page.go)    *)
(*   SpecFilter  snFilter over an item list (mvcc.go)                      *)
(*   SpecMvcc    writers, snapshots, recovery points, rollback (mvcc.go)   *)
(*   SpecPersist Persist against a concurrent mutator (persistor)          *)
(***************************************************************************)
EXTENDS Integers, Sequences, FiniteSets, TLC

(* ------------------------------ bounds ------------------------------- *)
\* keys are 1..MaxKey; MaxKey + 1 stands for skiplist.MaxItem
MaxKey == 3
\* record and split deltas are prepended while chainLen < MaxChain
MaxChain == 2
\* a page is compacted only while it then holds at most MaxItems items
MaxItems == 3

Keys == 1..MaxKey

(* ------------------------------ items -------------------------------- *)
\* an item as the page sees it: an opaque record ordered by its key
NilItm == [key |-> 0, val |-> 0]
MaxItem == [key |-> MaxKey + 1, val |-> 0]
PanicItm == [key |-> -1, val |-> 0]
Item(k, v) == [key |-> k, val |-> v]

\* storeCtx.cmp: key order, nil below and MaxItem above every key
cmp(a, b) == IF a.key < b.key THEN -1 ELSE IF a.key > b.key THEN 1 ELSE 0

(* ------------------------------ page ops ----------------------------- *)
opBasePage == 0
opInsertDelta == 1
opDeleteDelta == 2
opPageSplitDelta == 3
opPageRemoveDelta == 4
opPageMergeDelta == 5
opFlushPageDelta == 6

\* page ids: NilPid is the nil / end-of-index page id, whose item is MaxItem
NilPid == 0
MainPid == 1
SiblPid == 2

\* the zero value of a delta; a chain is a sequence of deltas, head first,
\* and `next` of a delta is the rest of the sequence
ZeroDelta ==
    [op |-> opBasePage, chainLen |-> 0, numItems |-> 0, hiItm |-> NilItm,
     rightSibling |-> NilPid, itm |-> NilItm, mergeSibling |-> <<>>,
     items |-> <<>>, offset |-> 0]

\* *(*pageDelta)(pd) = *pg.head : the header fields only
CopyHeader(head) ==
    IF head = <<>> THEN ZeroDelta
    ELSE [ZeroDelta EXCEPT !.op = head[1].op, !.chainLen = head[1].chainLen,
                           !.numItems = head[1].numItems, !.hiItm = head[1].hiItm,
                           !.rightSibling = head[1].rightSibling]

newRecordDelta(head, op, itm) ==
    LET pd == CopyHeader(head)
    IN  [pd EXCEPT !.chainLen = pd.chainLen + 1, !.op = op, !.itm = itm,
                   !.hiItm = IF head = <<>> THEN MaxItem ELSE head[1].hiItm]

newSplitPageDelta(head, itm, pid) ==
    LET pd == CopyHeader(head)
    IN  [pd EXCEPT !.op = opPageSplitDelta, !.itm = itm,
                   !.chainLen = pd.chainLen + 1, !.rightSibling = pid]

\* hiItm is left nil here; Merge sets it
newMergePageDelta(head, itm, sibl) ==
    LET cl == IF head = <<>> THEN 0 ELSE head[1].chainLen
        ni == IF head = <<>> THEN 0 ELSE head[1].numItems
    IN  [ZeroDelta EXCEPT !.op = opPageMergeDelta, !.itm = itm, !.mergeSibling = sibl,
                          !.chainLen = cl + sibl[1].chainLen + 1,
                          !.numItems = ni + sibl[1].numItems,
                          !.rightSibling = sibl[1].rightSibling]

newRemovePageDelta(head) ==
    [CopyHeader(head) EXCEPT !.op = opPageRemoveDelta]

newBasePage(head, itms) ==
    [ZeroDelta EXCEPT !.op = opBasePage, !.numItems = Len(itms), !.items = itms,
                      !.rightSibling = IF head = <<>> THEN NilPid ELSE head[1].rightSibling,
                      !.hiItm = IF head = <<>> THEN NilItm ELSE head[1].hiItm]

InRange(head, itm) == ~(head # <<>> /\ cmp(itm, head[1].hiItm) >= 0)

Insert(head, itm) == <<newRecordDelta(head, opInsertDelta, itm)>> \o head

Delete(head, itm) == <<newRecordDelta(head, opDeleteDelta, itm)>> \o head

\* sort.Search(n, func(i) { cmp(items[i], itm) >= 0 }) on 0-based indexes
RECURSIVE Search(_, _, _, _)
Search(items, itm, i, j) ==
    IF i < j
    THEN LET h == (i + j) \div 2
         IN  IF cmp(items[h + 1], itm) >= 0
             THEN Search(items, itm, i, h)
             ELSE Search(items, itm, h + 1, j)
    ELSE i

\* the loop of Lookup over a chain
RECURSIVE LookupChain(_, _)
LookupChain(pd, itm) ==
    IF pd = <<>> THEN NilItm
    ELSE LET d == pd[1]
         IN  CASE d.op = opInsertDelta ->
                    IF cmp(d.itm, itm) = 0 THEN d.itm ELSE LookupChain(Tail(pd), itm)
               [] d.op = opDeleteDelta ->
                    IF cmp(d.itm, itm) = 0 THEN NilItm ELSE LookupChain(Tail(pd), itm)
               [] d.op = opBasePage ->
                    LET n == d.numItems
                        index == Search(d.items, itm, 0, n)
                    IN  IF index < n /\ cmp(d.items[index + 1], itm) = 0
                        THEN d.items[index + 1]
                        ELSE NilItm
               [] d.op = opPageSplitDelta -> LookupChain(Tail(pd), itm)
               [] d.op = opPageMergeDelta ->
                    IF cmp(itm, d.itm) >= 0
                    THEN LookupChain(d.mergeSibling, itm)
                    ELSE LookupChain(Tail(pd), itm)
               [] OTHER -> PanicItm

\* (sorter) Add: append to the sorter's items
SorterAdd(itms, more) == itms \o more

\* sort.Stable with Less(i, j) == cmp(itms[i], itms[j]) < 0 : a stable insertion
RECURSIVE InsertSorted(_, _)
InsertSorted(sorted, x) ==
    IF sorted = <<>> THEN <<x>>
    ELSE IF cmp(x.itm, sorted[1].itm) < 0
         THEN <<x>> \o sorted
         ELSE <<sorted[1]>> \o InsertSorted(Tail(sorted), x)

RECURSIVE SorterRun(_)
SorterRun(itms) ==
    IF itms = <<>> THEN <<>>
    ELSE InsertSorted(SorterRun(SubSeq(itms, 1, Len(itms) - 1)), itms[Len(itms)])

\* (sorter) Merge of the base page's items with the sorted deltas: the delta
\* comes out and the base item of the same key is dropped
RECURSIVE SorterMerge(_, _)
SorterMerge(base, deltas) ==
    IF deltas = <<>> THEN base
    ELSE IF base = <<>> THEN deltas
    ELSE LET c == cmp(deltas[1].itm, base[1].itm)
         IN  IF c < 0 THEN <<deltas[1]>> \o SorterMerge(base, Tail(deltas))
             ELSE IF c > 0 THEN <<base[1]>> \o SorterMerge(Tail(base), deltas)
             ELSE <<deltas[1]>> \o SorterMerge(Tail(base), Tail(deltas))

inRange(lo, hi, itm) == cmp(itm, hi) < 0 /\ cmp(itm, lo) >= 0

PageItemOf(d) == [ins |-> (d.op = opInsertDelta), itm |-> d.itm]

BaseItemsIn(items, lo, hi) ==
    LET F[i \in 0..Len(items)] ==
            IF i = 0 THEN <<>>
            ELSE IF inRange(lo, hi, items[i])
                 THEN Append(F[i - 1], [ins |-> TRUE, itm |-> items[i]])
                 ELSE F[i - 1]
    IN  F[Len(items)]

\* collectPageItems: `sorter` holds what the walk has added so far
RECURSIVE collectWalk(_, _, _, _)
collectWalk(pd, lo, hi, sorter) ==
    IF pd = <<>> THEN SorterRun(sorter)
    ELSE LET d == pd[1]
         IN  CASE d.op \in {opInsertDelta, opDeleteDelta} ->
                    collectWalk(Tail(pd), lo, hi,
                                IF inRange(lo, hi, d.itm)
                                THEN SorterAdd(sorter, <<PageItemOf(d)>>)
                                ELSE sorter)
               [] d.op = opPageMergeDelta ->
                    collectWalk(Tail(pd), lo, hi,
                                SorterAdd(sorter, collectWalk(d.mergeSibling, lo, hi, <<>>)))
               [] d.op = opBasePage ->
                    SorterMerge(BaseItemsIn(d.items, lo, hi), SorterRun(sorter))
               [] OTHER -> collectWalk(Tail(pd), lo, hi, sorter)

collectPageItems(head, lo, hi) == collectWalk(head, lo, hi, <<>>)

collectItems(head, lo, hi) ==
    LET pis == collectPageItems(head, lo, hi)
        F[i \in 0..Len(pis)] ==
            IF i = 0 THEN <<>>
            ELSE IF pis[i].ins THEN Append(F[i - 1], pis[i].itm) ELSE F[i - 1]
    IN  F[Len(pis)]

Compact(head) == <<newBasePage(head, collectItems(head, NilItm, head[1].hiItm))>>

Close(head) == <<newRemovePageDelta(head)>> \o head

\* the base page Split walks down to (curr.next ... until op == opBasePage);
\* <<>> when the chain has none
RECURSIVE FindBase(_)
FindBase(pd) ==
    IF pd = <<>> THEN <<>>
    ELSE IF pd[1].op = opBasePage THEN pd ELSE FindBase(Tail(pd))

\* for mid > 0 { if cmp(bp.items[mid], head.hiItm) < 0 { break }; mid-- }
RECURSIVE ClampMid(_, _, _)
ClampMid(items, hiItm, mid) ==
    IF mid > 0 /\ ~(cmp(items[mid + 1], hiItm) < 0)
    THEN ClampMid(items, hiItm, mid - 1)
    ELSE mid

\* Split(pid): what it returns and what it leaves in pg.head.
\*   res = "panic"    a nil base page or an empty new page is dereferenced
\*   res = "declined" nil is returned, pg.head is unchanged
\*   res = "split"    newHead / newLow are the new page, head the old one
Split(head, pid) ==
    LET bpc == FindBase(head)
    IN  IF bpc = <<>>
        THEN [res |-> "panic", head |-> head, newHead |-> <<>>, newLow |-> NilItm]
        ELSE LET bp == bpc[1]
                 mid == ClampMid(bp.items, head[1].hiItm, Len(bp.items) \div 2)
             IN  IF mid > 0
                 THEN LET pivot == bp.items[mid + 1]
                          itms == collectItems(head, pivot, head[1].hiItm)
                          sd == newSplitPageDelta(head, pivot, pid)
                      IN  IF itms = <<>>
                          THEN [res |-> "panic", head |-> head, newHead |-> <<>>,
                                newLow |-> NilItm]
                          ELSE [res |-> "split",
                                newHead |-> <<newBasePage(head, itms)>>,
                                newLow |-> itms[1],
                                head |-> <<[sd EXCEPT !.hiItm = pivot, !.numItems = mid]>>
                                         \o head]
                 ELSE [res |-> "declined", head |-> head, newHead |-> <<>>,
                       newLow |-> NilItm]

\* Merge(sp): sp is the closed sibling, sp.head.next the chain under its
\* remove delta
Merge(head, spHead) ==
    LET siblPage == Tail(spHead)
        pdm == newMergePageDelta(head, head[1].hiItm, siblPage)
    IN  <<[pdm EXCEPT !.hiItm = siblPage[1].hiItm]>> \o head

\* the LSS offset a flush marker remembers
FlushOffset == 1

\* AddFlushRecord without eviction: a flush marker over the whole chain
AddFlushRecord(head, offset) ==
    <<[CopyHeader(head) EXCEPT !.op = opFlushPageDelta, !.offset = offset]>> \o head

(* --------------------------- marshal / unmarshal --------------------- *)
\* The byte buffer is a sequence of tokens: a big-endian u16 word (w) or the
\* bytes of one item (b, with w = -1).
Word(n) == [w |-> n, b |-> NilItm]
Blob(itm) == [w |-> -1, b |-> itm]

\* storeCtx.itemSize: every item is one token long
itemSize(itm) == 1

\* u16 length, then the bytes; MaxItem is length 0 with no bytes
EncodeItm(itm) ==
    IF itm = MaxItem THEN <<Word(0)>> ELSE <<Word(itemSize(itm)), Blob(itm)>>

EncodeBaseItems(head, items) ==
    LET F[i \in 0..Len(items)] ==
            IF i = 0 THEN <<>>
            ELSE IF InRange(head, items[i])
                 THEN F[i - 1] \o <<Word(itemSize(items[i])), Blob(items[i])>>
                 ELSE F[i - 1]
    IN  F[Len(items)]

\* the delta loop of Marshal; head is pg.head (InRange tests against it)
RECURSIVE MarshalLoop(_, _)
MarshalLoop(pd, head) ==
    IF pd = <<>> THEN <<>>
    ELSE LET d == pd[1]
         IN  CASE d.op \in {opInsertDelta, opDeleteDelta} ->
                    (IF InRange(head, d.itm)
                     THEN <<Word(d.op), Word(itemSize(d.itm)), Blob(d.itm)>>
                     ELSE <<>>) \o MarshalLoop(Tail(pd), head)
               [] d.op = opBasePage ->
                    LET enc == EncodeBaseItems(head, d.items)
                    IN  <<Word(d.op), Word(Len(enc) \div 2)>> \o enc
               [] d.op = opFlushPageDelta ->
                    <<Word(d.op), Word(0), Word(0), Word(0), Word(d.offset)>>
               [] OTHER -> MarshalLoop(Tail(pd), head)

\* Marshal(buf) with getItem(rightSibling) passed in as rsItm
Marshal(head, rsItm) ==
    IF head = <<>> THEN <<>>
    ELSE <<Word(head[1].chainLen), Word(head[1].numItems)>>
         \o EncodeItm(head[1].hiItm) \o EncodeItm(rsItm)
         \o MarshalLoop(head, head)

\* the items of a base page: n times a u16 length and the bytes
RECURSIVE ReadItems(_, _, _)
ReadItems(data, roffset, n) ==
    IF n = 0 THEN [itms |-> <<>>, roffset |-> roffset]
    ELSE LET l == data[roffset].w
             rest == ReadItems(data, roffset + 1 + l, n - 1)
         IN  [itms |-> <<data[roffset + 1].b>> \o rest.itms, roffset |-> rest.roffset]

\* the op loop of Unmarshal.  acc is the chain linked so far (pg.head and
\* the lastPd.next links).  An op the switch has no case for leaves pd as it
\* was, so lastPd.next = pd links the last delta to itself (or leaves a nil
\* head) and the following bytes are read as ops: the result is marked corrupt.
RECURSIVE UnmarshalLoop(_, _, _, _, _, _, _)
UnmarshalLoop(data, roffset, chainLen, numItems, hiItm, rs, acc) ==
    IF ~(roffset <= Len(data)) THEN [head |-> acc, corrupt |-> FALSE]
    ELSE LET op == data[roffset].w
         IN  CASE op \in {opInsertDelta, opDeleteDelta} ->
                    LET l == data[roffset + 1].w
                        rpd == [ZeroDelta EXCEPT !.op = op, !.chainLen = chainLen,
                                                 !.numItems = numItems, !.hiItm = hiItm,
                                                 !.rightSibling = rs,
                                                 !.itm = data[roffset + 2].b]
                    IN  UnmarshalLoop(data, roffset + 2 + l, chainLen - 1, numItems,
                                      hiItm, rs, Append(acc, rpd))
               [] op = opBasePage ->
                    LET nItms == data[roffset + 1].w
                        rd == ReadItems(data, roffset + 2, nItms)
                        bp == [newBasePage(acc, rd.itms) EXCEPT !.hiItm = hiItm,
                                                                !.rightSibling = rs]
                    IN  UnmarshalLoop(data, rd.roffset, chainLen, numItems, hiItm, rs,
                                      Append(acc, bp))
               [] OTHER -> [head |-> acc, corrupt |-> TRUE]

(* ------------------------------ state -------------------------------- *)
VARIABLES
    head,       \* page: pg.head of the first page (low key nil)
    sib,        \* page: its right sibling [st, low, head], created by Split
    hist,       \* ghost: per key, the value of its last Insert, 0 when it
                \* was never inserted or a Delete came last (while recOnly)
    last,       \* ghost: the last structure operation and the chains before it
    recOnly,    \* ghost: the run applies record operations and Compact only
    panicked,   \* a page operation panicked
    snf,        \* filter: the snFilter [sn, skip, filters]
    fIn,        \* filter: the items fed to Process so far, in order
    fOut,       \* filter: the items Process has emitted so far, in order
    gcf,        \* filter: the gcFilter [snIntervals, skipItm, filters]
    gOut,       \* filter: the items gcFilter.Process has returned so far
    rOut,       \* filter: the items a bare rollbackFilter has passed so far
    db,         \* mvcc: the Plasma fields (currSn, gcSn, itemsCount, ...)
    snaps,      \* mvcc: the Snapshot objects, by sn
    wr,         \* mvcc: the writers [pc, sn, del, count, rbSeen]
    chain,      \* mvcc: the items published to the pages, oldest first
    rollbacks,  \* mvcc: the rollback intervals the pages carry
    handles,    \* mvcc: the snapshots a caller holds a reference to
    crp,        \* mvcc: the CreateRecoveryPoint call in progress
    lssRP,      \* mvcc: the last lssRecoveryPoints block written
    lastRb,     \* ghost: the Rollback that has just returned
    nilClose,   \* mvcc: Close was called on a nil child
    iters,      \* mvcc: the open MVCCIterators, counted by snapshot
    rpLive,     \* ghost: the recovery points created and neither removed
                \* nor truncated by a rollback, in order of creation
    pt,         \* persist: the page table entry of the PageId
    lss,        \* persist: the log, one record per reservation
    pp,         \* persist: the Persist calls [pc, evict, pg, res, ...]
    sts,        \* persist: ctx.sts.FlushDataSz of each caller
    nMut,       \* persist: the mutations the writer has published
    sl,         \* index: the items of the skiplist, in order
    itr,        \* index: the iterator [st, seek, pos]
    got,        \* index: what itr.Get() returned since the Seek, in order
    live        \* ghost: the keys inserted and not deleted since

pageVars == <<head, sib, hist, last, recOnly, panicked>>
filterVars == <<snf, fIn, fOut, gcf, gOut, rOut>>
mvccVars == <<db, snaps, wr, chain, rollbacks, handles, crp, lssRP, lastRb, nilClose,
              iters, rpLive>>
persistVars == <<pt, lss, pp, sts, nMut>>
indexVars == <<sl, itr, got, live>>

vars == <<pageVars, filterVars, mvccVars, persistVars, indexVars>>

(* ------------------------------ idle parts ---------------------------- *)
\* each specification runs one part of the store; the variables of the
\* other parts keep these values
PageIdle ==
    /\ head = <<>> /\ sib = [st |-> "none", low |-> NilItm, head |-> <<>>]
    /\ hist = [k \in Keys |-> 0]
    /\ last = [op |-> "none", pre |-> <<>>, preSib |-> <<>>]
    /\ recOnly = FALSE /\ panicked = FALSE

FilterIdle ==
    /\ snf = [sn |-> 0, skip |-> FALSE, filters |-> <<>>]
    /\ fIn = <<>> /\ fOut = <<>>
    /\ gcf = <<>> /\ gOut = <<>> /\ rOut = <<>>

MvccIdle ==
    /\ db = <<>> /\ snaps = <<>> /\ wr = <<>> /\ chain = <<>> /\ rollbacks = <<>>
    /\ handles = {} /\ crp = <<>> /\ lssRP = <<>> /\ lastRb = <<>>
    /\ nilClose = FALSE /\ iters = <<>> /\ rpLive = <<>>

PersistIdle ==
    /\ pt = <<>> /\ lss = <<>> /\ pp = <<>> /\ sts = <<>> /\ nMut = 0

IndexIdle ==
    /\ sl = <<>> /\ itr = <<>> /\ got = <<>> /\ live = {}

NoSib == [st |-> "none", low |-> NilItm, head |-> <<>>]
NoLast == [op |-> "none", pre |-> <<>>, preSib |-> <<>>]
NoHist == [k \in Keys |-> 0]

\* storeCtx.getDeltas / getItem / getPageId over the two pages of the model
getDeltas(pid) == IF pid = SiblPid /\ sib.st # "none" THEN sib.head ELSE <<>>

getItem(pid) == IF pid = SiblPid /\ sib.st # "none" THEN sib.low ELSE MaxItem

getPageId(itm) ==
    IF itm = MaxItem THEN NilPid
    ELSE IF sib.st # "none" /\ itm = sib.low THEN SiblPid ELSE MainPid

\* Unmarshal(data) into a page whose head is nil
Unmarshal(data) ==
    LET chainLen == data[1].w
        numItems == data[2].w
        l1 == data[3].w
        hiItm == IF l1 = 0 THEN MaxItem ELSE data[4].b
        o2 == 4 + l1
        l2 == data[o2].w
        rs == IF l2 = 0 THEN getPageId(MaxItem) ELSE getPageId(data[o2 + 1].b)
    IN  UnmarshalLoop(data, o2 + 1 + l2, chainLen, numItems, hiItm, rs, <<>>)

Lookup(h, itm) ==
    IF h = <<>> THEN NilItm
    ELSE IF cmp(itm, h[1].hiItm) >= 0
         THEN LookupChain(getDeltas(h[1].rightSibling), itm)
         ELSE LookupChain(h, itm)

NeedSplit(h, threshold) == h # <<>> /\ h[1].numItems > threshold

NeedRemoval(h) == h # <<>> /\ h[1].op = opPageRemoveDelta

ChainLen(h) == IF h = <<>> THEN 0 ELSE h[1].chainLen

\* a flush marker is the head of the chain
Flushed(h) == h # <<>> /\ h[1].op = opFlushPageDelta

\* a page with no deltas; a run of record operations records hist
InitPage ==
    /\ head = <<>>
    /\ sib = NoSib
    /\ hist = NoHist
    /\ last = NoLast
    /\ recOnly = TRUE
    /\ panicked = FALSE
    /\ FilterIdle /\ MvccIdle /\ PersistIdle /\ IndexIdle

\* the same page in a run that also splits, merges and flushes
InitStruct ==
    /\ head = <<>>
    /\ sib = NoSib
    /\ hist = NoHist
    /\ last = NoLast
    /\ recOnly = FALSE
    /\ panicked = FALSE
    /\ FilterIdle /\ MvccIdle /\ PersistIdle /\ IndexIdle

(* ------------------------------ page actions ------------------------- *)
\* keys the index routes to the first page / to the sibling
MainKeys == {k \in Keys : InRange(head, Item(k, 0))}
SiblKeys == {k \in Keys : ~InRange(head, Item(k, 0)) /\ InRange(sib.head, Item(k, 0))}

\* the item a caller inserts for key k: in a run of record operations its
\* value differs from the value Lookup finds for k now, so that two versions
\* of a key can be told apart
NewItem(h, k) ==
    Item(k, IF recOnly /\ LookupChain(h, Item(k, 0)).val = 1 THEN 2 ELSE 1)

\* the items a compaction of h would keep
Live(h) == collectItems(h, NilItm, h[1].hiItm)

PgInsert ==
    /\ ~panicked /\ ~Flushed(head) /\ ChainLen(head) < MaxChain
    /\ \E k \in MainKeys :
          /\ head' = Insert(head, NewItem(head, k))
          /\ hist' = IF recOnly THEN [hist EXCEPT ![k] = NewItem(head, k).val] ELSE hist
    /\ last' = NoLast
    /\ UNCHANGED <<sib, recOnly, panicked, filterVars, mvccVars, persistVars, indexVars>>

PgDelete ==
    /\ ~panicked /\ ~Flushed(head) /\ ChainLen(head) < MaxChain
    /\ \E k \in MainKeys :
          /\ head' = Delete(head, Item(k, 0))
          /\ hist' = IF recOnly THEN [hist EXCEPT ![k] = 0] ELSE hist
    /\ last' = NoLast
    /\ UNCHANGED <<sib, recOnly, panicked, filterVars, mvccVars, persistVars, indexVars>>

PgCompact ==
    /\ ~panicked /\ ~Flushed(head) /\ head # <<>> /\ Len(Live(head)) <= MaxItems
    /\ head' = Compact(head)
    /\ last' = IF last.op = "Merge" THEN [last EXCEPT !.op = "MergeCompact"] ELSE NoLast
    /\ UNCHANGED <<sib, hist, recOnly, panicked, filterVars, mvccVars, persistVars, indexVars>>

SbInsert ==
    /\ ~panicked /\ ~Flushed(head) /\ sib.st = "open" /\ ChainLen(sib.head) < MaxChain
    /\ \E k \in SiblKeys :
          sib' = [sib EXCEPT !.head = Insert(sib.head, NewItem(sib.head, k))]
    /\ last' = NoLast
    /\ UNCHANGED <<head, hist, recOnly, panicked, filterVars, mvccVars, persistVars, indexVars>>

SbDelete ==
    /\ ~panicked /\ ~Flushed(head) /\ sib.st = "open" /\ ChainLen(sib.head) < MaxChain
    /\ \E k \in SiblKeys :
          sib' = [sib EXCEPT !.head = Delete(sib.head, Item(k, 0))]
    /\ last' = NoLast
    /\ UNCHANGED <<head, hist, recOnly, panicked, filterVars, mvccVars, persistVars, indexVars>>

SbCompact ==
    /\ ~panicked /\ ~Flushed(head) /\ sib.st = "open"
    /\ Len(Live(sib.head)) <= MaxItems
    /\ sib' = [sib EXCEPT !.head = Compact(sib.head)]
    /\ last' = NoLast
    /\ UNCHANGED <<head, hist, recOnly, panicked, filterVars, mvccVars, persistVars, indexVars>>

\* Split(pid) of the first page; the caller maps pid to the page returned
PgSplit ==
    /\ ~panicked /\ ~Flushed(head)
    /\ NeedSplit(head, 0) /\ ChainLen(head) < MaxChain
    /\ LET r == Split(head, SiblPid)
       IN  /\ sib.st = "none" \/ r.res # "split"
           /\ panicked' = (r.res = "panic")
           /\ head' = r.head
           /\ sib' = IF r.res = "split"
                     THEN [st |-> "open", low |-> r.newLow, head |-> r.newHead]
                     ELSE sib
           /\ last' = [op |-> r.res, pre |-> head, preSib |-> sib.head]
    /\ UNCHANGED <<hist, recOnly, filterVars, mvccVars, persistVars, indexVars>>

\* Close() of the sibling
SbClose ==
    /\ ~panicked /\ ~Flushed(head) /\ sib.st = "open"
    /\ sib' = [sib EXCEPT !.st = "closed", !.head = Close(sib.head)]
    /\ last' = NoLast
    /\ UNCHANGED <<head, hist, recOnly, panicked, filterVars, mvccVars, persistVars, indexVars>>

\* Merge(sp) of the closed sibling; the caller then unmaps the sibling
PgMerge ==
    /\ ~panicked /\ ~Flushed(head) /\ sib.st = "closed" /\ NeedRemoval(sib.head)
    /\ head' = Merge(head, sib.head)
    /\ sib' = NoSib
    /\ last' = [op |-> "Merge", pre |-> head, preSib |-> Tail(sib.head)]
    /\ UNCHANGED <<hist, recOnly, panicked, filterVars, mvccVars, persistVars, indexVars>>

\* a flush without eviction: the flush marker is prepended to the chain
PgFlush ==
    /\ ~panicked /\ ~Flushed(head) /\ head # <<>>
    /\ head' = AddFlushRecord(head, FlushOffset)
    /\ last' = NoLast
    /\ UNCHANGED <<sib, hist, recOnly, panicked, filterVars, mvccVars, persistVars, indexVars>>

NextPage ==
    \/ PgInsert
    \/ PgDelete
    \/ PgCompact

NextStruct ==
    \/ PgInsert
    \/ PgDelete
    \/ PgCompact
    \/ SbInsert
    \/ SbDelete
    \/ SbCompact
    \/ PgSplit
    \/ SbClose
    \/ PgMerge
    \/ PgFlush

SpecPage == InitPage /\ [][NextPage]_vars

SpecStruct == InitStruct /\ [][NextStruct]_vars

(* ------------------------------ page claims -------------------------- *)
KeysOf(itms) == {itms[i].key : i \in 1..Len(itms)}

\* the keys of [lo, hi) that Lookup finds in chain h
LiveKeys(h, lo, hi) ==
    {k \in Keys : inRange(lo, hi, Item(k, 0)) /\ LookupChain(h, Item(k, 0)) # NilItm}

StrictlyAscending(itms) ==
    \A i \in 1..Len(itms) - 1 : cmp(itms[i], itms[i + 1]) < 0

\* C1: after any sequence of Insert, Delete and Compact on a page, Lookup(k)
\* returns the item of the last Insert of k when an Insert came last for k,
\* and nothing when a Delete came last or k was never inserted.
C1_LookupReturnsLastOp ==
    (recOnly /\ ~panicked) =>
        \A k \in Keys : Lookup(head, Item(k, 0)) =
                           (IF hist[k] = 0 THEN NilItm ELSE Item(k, hist[k]))

\* C6: when Split returns a new page, the live keys of the old page in
\* [low, pivot) and the live keys of the new page are disjoint and together
\* the live keys of the page before; the old hiItm and the new low key are
\* the pivot, the new hiItm is the hiItm before.
C6_SplitPreservesKeys ==
    (last.op = "split") =>
        LET p0 == last.pre
            pivot == head[1].itm
            old == LiveKeys(head, NilItm, head[1].hiItm)
            new == LiveKeys(sib.head, sib.low, sib.head[1].hiItm)
        IN  /\ old \cap new = {}
            /\ old \cup new = LiveKeys(p0, NilItm, p0[1].hiItm)
            /\ head[1].hiItm = pivot
            /\ cmp(sib.low, pivot) = 0
            /\ sib.head[1].hiItm = p0[1].hiItm

\* C20: a Split whose mid reaches 0 is declined: no page is returned and the
\* head, with its hiItm, chainLen, numItems and rightSibling, is as before;
\* a Split that is performed has lowered mid from len(items)/2 only past
\* items at or above hiItm, and its pivot is strictly below the old hiItm
\* and strictly above the first item of the base page.
C20_SplitPivot ==
    LET p0 == last.pre
        items == FindBase(p0)[1].items
        mid == ClampMid(items, p0[1].hiItm, Len(items) \div 2)
    IN  /\ (last.op = "declined") =>
              /\ mid = 0
              /\ head = p0 /\ sib.head = last.preSib
        /\ (last.op = "split") =>
              /\ mid > 0
              /\ \A m \in (mid + 1)..(Len(items) \div 2) :
                    cmp(items[m + 1], p0[1].hiItm) >= 0
              /\ head[1].itm = items[mid + 1]
              /\ cmp(head[1].itm, p0[1].hiItm) < 0
              /\ cmp(items[1], head[1].itm) < 0

\* C7: Merge(s) then Compact yields a base page holding exactly keys(p) and
\* keys(s), in order, with the hiItm and rightSibling of s; and Lookup finds
\* every live key of both right after Merge.
C7_MergeCompactKeys ==
    LET p0 == last.pre
        s0 == last.preSib
        both == LiveKeys(p0, NilItm, p0[1].hiItm)
                    \cup LiveKeys(s0, p0[1].hiItm, s0[1].hiItm)
    IN  /\ (last.op = "Merge") =>
                \A k \in both : Lookup(head, Item(k, 0)) # NilItm
        /\ (last.op = "MergeCompact") =>
                /\ Len(head) = 1 /\ head[1].op = opBasePage
                /\ KeysOf(head[1].items) = both
                /\ StrictlyAscending(head[1].items)
                /\ head[1].hiItm = s0[1].hiItm
                /\ head[1].rightSibling = s0[1].rightSibling

\* Unmarshal(Marshal(h)) for the page with chain h
RoundTrip(h) == Unmarshal(Marshal(h, getItem(h[1].rightSibling)))

RoundTripAgrees(h, lo) ==
    LET u == RoundTrip(h)
    IN  /\ ~u.corrupt
        /\ u.head # <<>>
        /\ u.head[1].hiItm = h[1].hiItm
        /\ u.head[1].rightSibling = h[1].rightSibling
        /\ \A k \in Keys :
              inRange(lo, h[1].hiItm, Item(k, 0)) =>
                  LookupChain(u.head, Item(k, 0)) = LookupChain(h, Item(k, 0))

\* C8: for every reachable page, the page rebuilt by Unmarshal from Marshal
\* answers Lookup as the original does on [low, hiItm) and has the same
\* hiItm and rightSibling.
C8_MarshalRoundTrip ==
    ~panicked =>
        /\ (head # <<>>) => RoundTripAgrees(head, NilItm)
        /\ (sib.st = "open") => RoundTripAgrees(sib.head, sib.low)

CollectsLive(h, lo) ==
    LET itms == collectItems(h, lo, h[1].hiItm)
    IN  /\ StrictlyAscending(itms)
        /\ KeysOf(itms) = LiveKeys(h, lo, h[1].hiItm)
        /\ \A i \in 1..Len(itms) : itms[i] = LookupChain(h, itms[i])

\* C9: collectItems(head, low, hiItm) of a reachable page is strictly
\* ascending by key and holds exactly the keys whose newest version in the
\* chain is an insert, each with that version.
C9_CollectItemsLive ==
    (~panicked /\ ~Flushed(head)) =>
        /\ (head # <<>>) => CollectsLive(head, NilItm)
        /\ (sib.st = "open") => CollectsLive(sib.head, sib.low)

\* the deltas of chain h above its base page, those of an absorbed merge
\* sibling included
RECURSIVE DeltasAbove(_)
DeltasAbove(h) ==
    IF h = <<>> THEN 0
    ELSE IF h[1].op = opBasePage THEN 0
    ELSE 1 + DeltasAbove(h[1].mergeSibling) + DeltasAbove(Tail(h))

\* chainLen of chain h counts its deltas and is 0 on every base page
ChainLenCounts(h) ==
    (h # <<>>) =>
        /\ h[1].chainLen = DeltasAbove(h)
        /\ \A i \in 1..Len(h) : h[i].op = opBasePage => h[i].chainLen = 0

\* C23: on every page reached by Insert, Delete, Split, Merge, Close and
\* Compact, and on the page Unmarshal rebuilds from its Marshal, head.chainLen
\* is the number of deltas above the base page, an absorbed merge sibling's
\* deltas included; a base page has chainLen 0; right after Merge chainLen is
\* own + sibling + 1 and numItems is own + sibling.
C23_ChainLenInvariant ==
    (~panicked /\ ~Flushed(head)) =>
        /\ ChainLenCounts(head)
        /\ (sib.st # "none") => ChainLenCounts(sib.head)
        /\ (head # <<>> /\ ~RoundTrip(head).corrupt) => ChainLenCounts(RoundTrip(head).head)
        /\ (sib.st = "open" /\ ~RoundTrip(sib.head).corrupt) =>
                ChainLenCounts(RoundTrip(sib.head).head)
        /\ (last.op = "Merge") =>
                /\ head[1].chainLen = last.pre[1].chainLen + last.preSib[1].chainLen + 1
                /\ head[1].numItems = last.pre[1].numItems + last.preSib[1].numItems

(* ------------------------------ filters ------------------------------ *)
\* the keys and sequence numbers of the items fed to a filter, and the
\* number of items fed
MaxFKey == 2
MaxFSn == 3
MaxFeed == 4

\* an MVCC item: key, sn and the insert / delete flag (item.IsInsert)
FItems == [key : 1..MaxFKey, sn : 1..MaxFSn, ins : BOOLEAN]

\* a rollbackSn
Intervals == {iv \in [start : 1..MaxFSn, end : 1..MaxFSn] : iv.start <= iv.end}

\* a rollbackFilter whose intervals leave out their end
rollbackFilterOpenEnd(filters, o) ==
    IF filters = <<>> THEN <<o>>
    ELSE IF \E i \in 1..Len(filters) :
                o.sn >= filters[i].start /\ o.sn < filters[i].end
         THEN <<>>
         ELSE <<o>>

\* rollbackFilter.Process: <<o>> when o passes, <<>> for nilPageItemsList
rollbackFilterProcess(filters, o) ==
    IF filters = <<>> THEN <<o>>
    ELSE IF \E i \in 1..Len(filters) :
                o.sn >= filters[i].start /\ o.sn <= filters[i].end
         THEN <<>>
         ELSE <<o>>

\* snFilter.Process: the filter after the call and what the call returns
snFilterProcess(f, o) ==
    IF rollbackFilterProcess(f.filters, o) = <<>>
    THEN [f |-> f, out |-> <<>>]
    ELSE IF f.skip \/ o.sn > f.sn
         THEN [f |-> [f EXCEPT !.skip = FALSE], out |-> <<>>]
         ELSE IF ~o.ins
              THEN [f |-> [f EXCEPT !.skip = TRUE], out |-> <<>>]
              ELSE [f |-> f, out |-> <<o>>]

\* collection order: keys ascending, the versions of one key newest first
InOrder(in, o) ==
    IF in = <<>> THEN TRUE
    ELSE IF in[Len(in)].key = o.key
         THEN o.sn <= in[Len(in)].sn
         ELSE in[Len(in)].key < o.key

\* Snapshot.NewIterator builds &snFilter{sn: s.sn}; the iterator adds the
\* rollback intervals of the page
InitFilter ==
    /\ \E sn \in 1..MaxFSn, fl \in {<<>>} \cup {<<iv>> : iv \in Intervals} :
          snf = [sn |-> sn, skip |-> FALSE, filters |-> fl]
    /\ fIn = <<>>
    /\ fOut = <<>>
    /\ gcf = <<>> /\ gOut = <<>> /\ rOut = <<>>
    /\ PageIdle /\ MvccIdle /\ PersistIdle /\ IndexIdle

\* the iterator passes the next collected item to the filter
FeedItem ==
    /\ Len(fIn) < MaxFeed
    /\ \E o \in FItems :
          /\ InOrder(fIn, o)
          /\ fIn' = Append(fIn, o)
          /\ snf' = snFilterProcess(snf, o).f
          /\ fOut' = fOut \o snFilterProcess(snf, o).out
    /\ UNCHANGED <<gcf, gOut, rOut>>
    /\ UNCHANGED <<pageVars, mvccVars, persistVars, indexVars>>

NextFilter ==
    \/ FeedItem

SpecFilter == InitFilter /\ [][NextFilter]_vars

(* ------------------------------ gcFilter ----------------------------- *)
\* the rollback intervals registered with one filter, and the items of the
\* page that is passed through the filters
MaxRbFilters == 2
MaxGcFeed == 3

\* the boundaries of the live snapshots, sorted
SnIntervals ==
    {iv \in UNION {[1..n -> 0..MaxFSn] : n \in 0..(MaxFSn + 1)} :
        \A i \in 1..(Len(iv) - 1) : iv[i] < iv[i + 1]}

\* gcFilter.findInterval: the first i with snIntervals[i] < sn <=
\* snIntervals[i+1], counted from 1, and 0 when there is none
findInterval(snIntervals, sn) ==
    LET hits == {i \in 1..(Len(snIntervals) - 1) :
                    sn > snIntervals[i] /\ sn <= snIntervals[i + 1]}
    IN  IF hits = {} THEN 0 ELSE CHOOSE i \in hits : \A j \in hits : i <= j

\* gcFilter.inInterval
inInterval(snIntervals, in, sn) == sn > snIntervals[in] /\ sn < snIntervals[in + 1]

\* gcFilter.Process: the filter after the call and what the call returns;
\* skipItm is <<>> for nil and <<itm>> for a pointer to itm
gcFilterProcess(f, o) ==
    IF rollbackFilterProcess(f.filters, o) = <<>>
    THEN [f |-> f, out |-> <<>>]
    ELSE IF ~o.ins
         THEN [f |-> [f EXCEPT !.skipItm = <<o>>], out |-> <<>>]
         ELSE LET skipItm == f.skipItm
                  f1 == [f EXCEPT !.skipItm = <<>>]
              IN  IF skipItm # <<>>
                  THEN IF skipItm[1].sn = o.sn
                       THEN [f |-> f1, out |-> <<>>]
                       ELSE LET in == findInterval(f.snIntervals, skipItm[1].sn)
                            IN  IF in > 0 /\ inInterval(f.snIntervals, in, o.sn)
                                THEN [f |-> f1, out |-> <<>>]
                                ELSE [f |-> f1, out |-> <<skipItm[1], o>>]
                  ELSE [f |-> f1, out |-> <<o>>]

\* an snFilter and a gcFilter over the same page, no interval registered
InitGc ==
    /\ \E sn \in 1..MaxFSn : snf = [sn |-> sn, skip |-> FALSE, filters |-> <<>>]
    /\ \E iv \in SnIntervals : gcf = [snIntervals |-> iv, skipItm |-> <<>>, filters |-> <<>>]
    /\ fIn = <<>> /\ fOut = <<>> /\ gOut = <<>> /\ rOut = <<>>
    /\ PageIdle /\ MvccIdle /\ PersistIdle /\ IndexIdle

\* rollbackFilter.AddFilter: a rollback interval of the page is registered
\* with the filters before the page's items are passed
GcAddFilter ==
    /\ fIn = <<>> /\ Len(gcf.filters) < MaxRbFilters
    /\ \E iv \in Intervals :
          /\ gcf' = [gcf EXCEPT !.filters = Append(@, iv)]
          /\ snf' = [snf EXCEPT !.filters = Append(@, iv)]
    /\ UNCHANGED <<fIn, fOut, gOut, rOut>>
    /\ UNCHANGED <<pageVars, mvccVars, persistVars, indexVars>>

\* rollbackFilter.Reset
GcReset ==
    /\ fIn = <<>> /\ gcf.filters # <<>>
    /\ gcf' = [gcf EXCEPT !.filters = <<>>]
    /\ snf' = [snf EXCEPT !.filters = <<>>]
    /\ UNCHANGED <<fIn, fOut, gOut, rOut>>
    /\ UNCHANGED <<pageVars, mvccVars, persistVars, indexVars>>

\* the next item of the page is passed to a rollbackFilter, to the snFilter
\* and to the gcFilter; pos stands for the item's address
GcFeed ==
    /\ Len(fIn) < MaxGcFeed
    /\ \E o \in FItems :
          LET p == [key |-> o.key, sn |-> o.sn, ins |-> o.ins, pos |-> Len(fIn) + 1]
          IN  /\ InOrder(fIn, o)
              /\ fIn' = Append(fIn, o)
              /\ rOut' = rOut \o rollbackFilterProcess(gcf.filters, o)
              /\ snf' = snFilterProcess(snf, o).f
              /\ fOut' = fOut \o snFilterProcess(snf, o).out
              /\ gcf' = gcFilterProcess(gcf, p).f
              /\ gOut' = gOut \o gcFilterProcess(gcf, p).out
    /\ UNCHANGED <<pageVars, mvccVars, persistVars, indexVars>>

NextGc ==
    \/ GcAddFilter
    \/ GcReset
    \/ GcFeed

SpecGc == InitGc /\ [][NextGc]_vars

(* ------------------------------ filter claims ------------------------ *)
\* item i of in is a version the snapshot can see: not rolled back, sn <= S
Qualifies(f, in, i) ==
    rollbackFilterProcess(f.filters, in[i]) # <<>> /\ in[i].sn <= f.sn

\* item i is the newest version of its key that the snapshot can see
NewestQualifying(f, in, i) ==
    /\ Qualifies(f, in, i)
    /\ \A j \in 1..(i - 1) : in[j].key = in[i].key => ~Qualifies(f, in, j)

\* per key, the newest version with sn <= S when that version is an insert
ExpectedOut(f, in) ==
    LET F[i \in 0..Len(in)] ==
            IF i = 0 THEN <<>>
            ELSE IF NewestQualifying(f, in, i) /\ in[i].ins
                 THEN Append(F[i - 1], in[i])
                 ELSE F[i - 1]
    IN  F[Len(in)]

\* C2: snFilter with snapshot number S, fed items in collection order, has
\* emitted for each key at most one item: the newest version with sn <= S when
\* that version is an insert and nothing when it is a delete, however many
\* older versions of the key follow.
C2_SnFilterNewestVersion == fOut = ExpectedOut(snf, fIn)

\* the sn of item o lies in a registered interval of filters, bounds included
InRollback(filters, o) ==
    \E i \in 1..Len(filters) : filters[i].start <= o.sn /\ o.sn <= filters[i].end

\* C21: rollbackFilter drops an item exactly when its sn lies in a registered
\* interval, bounds included, and passes every item when none is registered
\* (at the start or after Reset); snFilter and gcFilter apply it first: an
\* item it drops is not emitted and leaves skip and skipItm as they are.
C21_RollbackFilterFirst ==
    [][/\ fIn' # fIn =>
            LET o == fIn'[Len(fIn')]
            IN  /\ InRollback(gcf.filters, o) =>
                      /\ rOut' = rOut
                      /\ snf' = snf /\ fOut' = fOut
                      /\ gcf' = gcf /\ gOut' = gOut
                /\ ~InRollback(gcf.filters, o) => rOut' = Append(rOut, o)
       /\ (gcf.filters # <<>> /\ gcf'.filters = <<>>) =>
            (snf'.filters = <<>> /\ fIn' = fIn /\ rOut' = rOut)]_vars

\* a delete set skip and skipItm, and the next item, whose sn is the end of
\* the second registered interval, was dropped and left both set
C21_Witness ==
    /\ Len(fIn) = 2 /\ ~fIn[1].ins
    /\ Len(gcf.filters) = 2
    /\ ~InRollback(<<gcf.filters[1]>>, fIn[2])
    /\ fIn[2].sn = gcf.filters[2].end
    /\ rOut = <<fIn[1]>>
    /\ snf.skip /\ gcf.skipItm # <<>>

\* item i of the page was returned by the gcFilter
GcEmitted(i) == \E j \in 1..Len(gOut) : gOut[j].pos = i

\* item i is the delete the gcFilter holds in skipItm
GcPending(i) == gcf.skipItm # <<>> /\ gcf.skipItm[1].pos = i

\* no live snapshot boundary lies between the two sns: every live snapshot
\* that sees the older one sees the newer one too
SameSnInterval(older, newer) ==
    ~\E x \in 1..Len(gcf.snIntervals) :
        older <= gcf.snIntervals[x] /\ gcf.snIntervals[x] < newer

\* item i follows a newer version of its key that is not rolled back and
\* lies in the same snapshot interval
GcShadowed(i) ==
    \E j \in 1..(i - 1) :
        /\ fIn[j].key = fIn[i].key
        /\ ~InRollback(gcf.filters, fIn[j])
        /\ SameSnInterval(fIn[i].sn, fIn[j].sn)

\* what snFilter{sn: b} with the registered intervals emits for the items seq
SnFilterRun(b, seq) ==
    LET F[i \in 0..Len(seq)] ==
            IF i = 0
            THEN [f |-> [sn |-> b, skip |-> FALSE, filters |-> gcf.filters], out |-> <<>>]
            ELSE [f |-> snFilterProcess(F[i - 1].f, seq[i]).f,
                  out |-> F[i - 1].out \o snFilterProcess(F[i - 1].f, seq[i]).out]
    IN  {[key |-> F[Len(seq)].out[j].key, sn |-> F[Len(seq)].out[j].sn] :
            j \in 1..Len(F[Len(seq)].out)}

\* C22 (discards): an item the gcFilter has discarded lies in a rollback
\* interval or is shadowed by a newer version of its own key in the same
\* snapshot interval.
GcDiscardsOnlyShadowed ==
    \A i \in 1..Len(fIn) :
        (~GcEmitted(i) /\ ~GcPending(i)) =>
            (InRollback(gcf.filters, fIn[i]) \/ GcShadowed(i))

\* C22 (views): for each live snapshot boundary b, snFilter(b) shows the same
\* keys and versions on the gc-filtered items as on the page's items.
GcKeepsViews ==
    gcf.skipItm = <<>> =>
        \A x \in 1..Len(gcf.snIntervals) :
            SnFilterRun(gcf.snIntervals[x], gOut) = SnFilterRun(gcf.snIntervals[x], fIn)

\* C22: gcFilter, fed a page's items in collection order, discards an item
\* only if it is rolled back or shadowed by a newer version of the same key
\* in the same snapshot interval, never because of an item of another key;
\* so every live snapshot sees the same through snFilter before and after.
C22_GcFilterSafe == GcDiscardsOnlyShadowed /\ GcKeepsViews

(* ------------------------------ MVCC --------------------------------- *)
\* writers; NewSnapshot and Rollback run while currSn is below the number of
\* Snapshot objects (MaxSn, or MaxRpSn in a run without writers); InsertKV
\* and DeleteKV start while fewer than MaxWrites items are written or under way
NumWriters == 1
MaxSn == 3
MaxWrites == 2
MaxRpSn == 4
\* the MVCCIterators open at a time
MaxIters == 1
\* the keys the writers use are 1..MaxMvccKey; BigKey is a key newItem rejects
MaxMvccKey == 1
\* Config.MaxSnSyncFrequency
MaxSnSyncFrequency == 2

Writers == 1..NumWriters
MvccKeys == 1..MaxMvccKey
BigKey == MaxMvccKey + 1

\* the nil *Snapshot
NilSnap == 0

\* Config: snapshots and persistence are enabled
shouldPersist == TRUE

NoSnapshot == [refCount |-> 0, child |-> NilSnap, count |-> 0]
IdleWriter ==
    [pc |-> "idle", key |-> 0, sn |-> 0, del |-> FALSE, count |-> 0, rbSeen |-> 0,
     tmp |-> 0, net |-> 0]
NoCrp == [pc |-> "idle", sn |-> NilSnap, rps |-> <<>>, ver |-> 0]
NoRb == [op |-> "none", rp |-> [sn |-> 0, count |-> 0], start |-> 0, end |-> 0,
         snap |-> NilSnap, visRp |-> {}, pending |-> 0]

\* the store as New leaves it: currSn is 1 and the current snapshot, with
\* one reference, carries it
InitMvcc ==
    /\ db = [currSn |-> 1, gcSn |-> 0, itemsCount |-> 0, numSnCreated |-> 0,
             lastMaxSn |-> 0, rpVersion |-> 0, currSnapshot |-> 1,
             recoveryPoints |-> <<>>, rpSns |-> <<>>]
    /\ snaps = [s \in 1..MaxSn |-> IF s = 1 THEN [NoSnapshot EXCEPT !.refCount = 1]
                                            ELSE NoSnapshot]
    /\ wr = [w \in Writers |-> IdleWriter]
    /\ chain = <<>>
    /\ rollbacks = <<>>
    /\ handles = {}
    /\ crp = NoCrp
    /\ lssRP = [version |-> 0, rps |-> <<>>]
    /\ lastRb = NoRb
    /\ nilClose = FALSE
    /\ iters = [s \in DOMAIN snaps |-> 0]
    /\ rpLive = <<>>
    /\ PageIdle /\ FilterIdle /\ PersistIdle /\ IndexIdle

\* the sum of the writers' pending counts
SumCounts(w) ==
    LET F[i \in 0..NumWriters] == IF i = 0 THEN 0 ELSE F[i - 1] + w[i].count
    IN  F[NumWriters]

\* the items an iterator surfaces for snapshot number sn: published, sn at
\* most sn, and outside every rollback interval of the page
Visible(ch, rbs, sn) ==
    {i \in 1..Len(ch) : ch[i].sn <= sn /\ rollbackFilterProcess(rbs, ch[i]) # <<>>}

\* an updateMaxSn whose maxSn is two lower
updateMaxSnLow(d, sn, force) ==
    IF shouldPersist
    THEN LET d1 == IF d.numSnCreated % MaxSnSyncFrequency = 0 \/ force
                   THEN [d EXCEPT !.lastMaxSn = sn + MaxSnSyncFrequency - 1]
                   ELSE d
         IN  [d1 EXCEPT !.numSnCreated = d.numSnCreated + 1]
    ELSE d

\* updateMaxSn(sn, force) on the Plasma fields d
updateMaxSn(d, sn, force) ==
    IF shouldPersist
    THEN LET d1 == IF d.numSnCreated % MaxSnSyncFrequency = 0 \/ force
                   THEN [d EXCEPT !.lastMaxSn = sn + MaxSnSyncFrequency + 1]
                   ELSE d
         IN  [d1 EXCEPT !.numSnCreated = d.numSnCreated + 1]
    ELSE d

\* a newSnapshot that returns the snapshot it allocates
newSnapshotReturnsNew(d, sp, w) ==
    LET snap == d.currSnapshot
        nsn == d.currSn + 1
        sp1 == [sp EXCEPT ![snap].child = nsn,
                          ![nsn] = [refCount |-> 2, child |-> NilSnap, count |-> 0]]
        d1 == updateMaxSn([d EXCEPT !.currSn = nsn, !.currSnapshot = nsn], nsn, FALSE)
        total == d.itemsCount + SumCounts(w)
    IN  [snap |-> nsn,
         db |-> [d1 EXCEPT !.itemsCount = total],
         snaps |-> [sp1 EXCEPT ![snap].count = total],
         wr |-> [i \in Writers |-> [w[i] EXCEPT !.count = 0]]]

\* a newSnapshot whose snapshot starts with one reference
newSnapshotOneRef(d, sp, w) ==
    LET snap == d.currSnapshot
        nsn == d.currSn + 1
        sp1 == [sp EXCEPT ![snap].child = nsn,
                          ![nsn] = [refCount |-> 1, child |-> NilSnap, count |-> 0]]
        d1 == updateMaxSn([d EXCEPT !.currSn = nsn, !.currSnapshot = nsn], nsn, FALSE)
        total == d.itemsCount + SumCounts(w)
    IN  [snap |-> snap,
         db |-> [d1 EXCEPT !.itemsCount = total],
         snaps |-> [sp1 EXCEPT ![snap].count = total],
         wr |-> [i \in Writers |-> [w[i] EXCEPT !.count = 0]]]

\* newSnapshot() on the Plasma fields d, the snapshots sp and the writers w:
\* what it returns (snap) and what it leaves behind
newSnapshot(d, sp, w) ==
    LET snap == d.currSnapshot
        nsn == d.currSn + 1
        sp1 == [sp EXCEPT ![snap].child = nsn,
                          ![nsn] = [refCount |-> 2, child |-> NilSnap, count |-> 0]]
        d1 == updateMaxSn([d EXCEPT !.currSn = nsn, !.currSnapshot = nsn], nsn, FALSE)
        total == d.itemsCount + SumCounts(w)
    IN  [snap |-> snap,
         db |-> [d1 EXCEPT !.itemsCount = total],
         snaps |-> [sp1 EXCEPT ![snap].count = total],
         wr |-> [i \in Writers |-> [w[i] EXCEPT !.count = 0]]]

\* an Open that takes no reference
SnapshotOpenNone(sp, s) == sp

\* Snapshot.Open on snapshot s of sp
SnapshotOpen(sp, s) == [sp EXCEPT ![s].refCount = @ + 1]

\* a Close that advances gcSn and closes the child on every call
RECURSIVE SnapshotCloseAlways(_, _)
SnapshotCloseAlways(st, s) ==
    IF s = NilSnap THEN [st EXCEPT !.nil = TRUE]
    ELSE LET rc == st.snaps[s].refCount - 1
             st1 == [st EXCEPT !.snaps[s].refCount = rc]
         IN  IF rc >= 0
             THEN SnapshotCloseAlways([st1 EXCEPT !.gcSn = st.gcSn + 1], st.snaps[s].child)
             ELSE st1

\* Snapshot.Close on snapshot s, over st = [snaps, gcSn, nil]; nil records a
\* Close on a nil child
RECURSIVE SnapshotClose(_, _)
SnapshotClose(st, s) ==
    IF s = NilSnap THEN [st EXCEPT !.nil = TRUE]
    ELSE LET rc == st.snaps[s].refCount - 1
             st1 == [st EXCEPT !.snaps[s].refCount = rc]
         IN  IF rc = 0
             THEN SnapshotClose([st1 EXCEPT !.gcSn = st.gcSn + 1], st.snaps[s].child)
             ELSE st1

\* an updateRecoveryPoints that keeps the version
updateRecoveryPointsSameVersion(d, rps) ==
    IF shouldPersist
    THEN [d EXCEPT !.recoveryPoints = rps]
    ELSE d

\* updateRecoveryPoints(rps) on the Plasma fields d, and the block it writes
updateRecoveryPoints(d, rps) ==
    IF shouldPersist
    THEN [d EXCEPT !.rpVersion = d.rpVersion + 1, !.recoveryPoints = rps]
    ELSE d

RPBlock(d, old, rps) ==
    IF shouldPersist THEN [version |-> d.rpVersion + 1, rps |-> rps] ELSE old

\* updateRPSns(rps)
updateRPSns(d, rps) == [d EXCEPT !.rpSns = [i \in 1..Len(rps) |-> rps[i].sn]]

\* a selection that drops the recovery point rolled back to as well
KeepBelow(rps, sn) == SelectSeq(rps, LAMBDA rp : rp.sn < sn)

\* the recovery points of rps with sn <= sn, in order (Rollback) and those
\* with another sn than sn (RemoveRecoveryPoint)
KeepUpTo(rps, sn) == SelectSeq(rps, LAMBDA rp : rp.sn <= sn)
KeepOthers(rps, sn) == SelectSeq(rps, LAMBDA rp : rp.sn # sn)

\* a start that is one too low: the interval would take in rollRP.sn itself
RollbackStartAtRp(rollRP) == rollRP.sn

\* start := rollRP.sn + 1
RollbackStart(rollRP) == rollRP.sn + 1

\* newItem(k, v, sn, del, buf): the item, or ErrKeyTooLarge for a key over
\* the size limit; err "none" is the nil error
newItem(k, sn, del) ==
    IF k = BigKey THEN [err |-> "ErrKeyTooLarge", key |-> 0, sn |-> 0, del |-> FALSE]
    ELSE [err |-> "none", key |-> k, sn |-> sn, del |-> del]

\* a check of newItem's error that never returns
ReturnsNever(err) == FALSE

\* if err != nil { return err }
ReturnsErr(err) == err # "none"

\* the newest published version of key k, or <<>>
Newest(ch, k) ==
    LET at == {i \in 1..Len(ch) : ch[i].key = k}
    IN  IF at = {} THEN <<>>
        ELSE <<ch[CHOOSE i \in at : \A j \in at : j <= i]>>

(* ------------------------------ MVCC actions ------------------------- *)
InFlight == Cardinality({w \in Writers : wr[w].pc # "idle"})

\* InsertKV / DeleteKV: sn := atomic.LoadUint64(&w.currSn), newItem, and
\* the return of its error
WLoad(w) ==
    /\ wr[w].pc = "idle" /\ Len(chain) + InFlight < MaxWrites
    /\ \E k \in MvccKeys \cup {BigKey}, del \in BOOLEAN :
          LET r == newItem(k, db.currSn, del)
          IN  /\ wr' = IF ReturnsErr(r.err) THEN wr
                       ELSE [wr EXCEPT ![w].pc = "loaded", ![w].key = k,
                                       ![w].sn = db.currSn, ![w].del = del,
                                       ![w].rbSeen = Len(rollbacks)]
              /\ lastRb' = [NoRb EXCEPT !.op = r.err]
    /\ UNCHANGED <<db, snaps, chain, rollbacks, handles, crp, lssRP, nilClose>>
    /\ UNCHANGED <<iters, rpLive>>
    /\ UNCHANGED <<pageVars, filterVars, persistVars, indexVars>>

\* LookupKV(k): newItem, the return of its error, else w.Lookup and what it
\* found
WLookupKV(w) ==
    /\ wr[w].pc = "idle"
    /\ \E k \in MvccKeys \cup {BigKey} :
          LET r == newItem(k, 0, FALSE)
              o == Newest(chain, k)
          IN  lastRb' = [NoRb EXCEPT !.op =
                            IF ReturnsErr(r.err) THEN r.err
                            ELSE IF o = <<>> \/ ~o[1].ins THEN "ErrItemNotFound"
                            ELSE "found"]
    /\ UNCHANGED <<db, snaps, wr, chain, rollbacks, handles, crp, lssRP, nilClose>>
    /\ UNCHANGED <<iters, rpLive>>
    /\ UNCHANGED <<pageVars, filterVars, persistVars, indexVars>>

\* w.count++ / w.count--, the read: a plain int, read and written back with
\* no lock and no atomic, so newSnapshot's roll-up can run in between
WCount(w) ==
    /\ wr[w].pc = "loaded"
    /\ wr' = [wr EXCEPT ![w].pc = "counting", ![w].tmp = wr[w].count]
    /\ lastRb' = NoRb
    /\ UNCHANGED <<db, snaps, chain, rollbacks, handles, crp, lssRP, nilClose>>
    /\ UNCHANGED <<iters, rpLive>>
    /\ UNCHANGED <<pageVars, filterVars, persistVars, indexVars>>

\* the value w.count++ (w.count-- for a delete) writes back for the value c read
Counted(c, del) == IF del THEN c - 1 ELSE c + 1

\* w.count++ / w.count--, the write; net is the ghost count of the InsertKV
\* calls past their increment less the DeleteKV calls past their decrement
WCountStore(w) ==
    /\ wr[w].pc = "counting"
    /\ wr' = [wr EXCEPT ![w].pc = "counted",
                        ![w].count = Counted(wr[w].tmp, wr[w].del),
                        ![w].tmp = 0,
                        ![w].net = IF wr[w].del THEN @ - 1 ELSE @ + 1]
    /\ lastRb' = NoRb
    /\ UNCHANGED <<db, snaps, chain, rollbacks, handles, crp, lssRP, nilClose>>
    /\ UNCHANGED <<iters, rpLive>>
    /\ UNCHANGED <<pageVars, filterVars, persistVars, indexVars>>

\* w.Insert(itm): the item is published to its page
WInsert(w) ==
    /\ wr[w].pc = "counted"
    /\ chain' = Append(chain, [key |-> wr[w].key, sn |-> wr[w].sn, ins |-> ~wr[w].del,
                               pubSn |-> db.currSn, rbSeen |-> wr[w].rbSeen])
    /\ wr' = [wr EXCEPT ![w].pc = "idle"]
    /\ lastRb' = NoRb
    /\ UNCHANGED <<db, snaps, rollbacks, handles, crp, lssRP, nilClose>>
    /\ UNCHANGED <<iters, rpLive>>
    /\ UNCHANGED <<pageVars, filterVars, persistVars, indexVars>>

\* NewSnapshot(), under the MVCC lock
NewSnapshot ==
    /\ db.currSn < Len(snaps)
    /\ LET r == newSnapshot(db, snaps, wr)
       IN  /\ db' = r.db
           /\ snaps' = r.snaps
           /\ wr' = r.wr
           /\ handles' = handles \cup {r.snap}
    /\ lastRb' = NoRb
    /\ UNCHANGED <<chain, rollbacks, crp, lssRP, nilClose>>
    /\ UNCHANGED <<iters, rpLive>>
    /\ UNCHANGED <<pageVars, filterVars, persistVars, indexVars>>

\* Snapshot.Close() by a caller that holds the snapshot
SnapClose ==
    /\ \E s \in handles :
          LET r == SnapshotClose([snaps |-> snaps, gcSn |-> db.gcSn, nil |-> nilClose], s)
          IN  /\ snaps' = r.snaps
              /\ db' = [db EXCEPT !.gcSn = r.gcSn]
              /\ nilClose' = r.nil
              /\ handles' = handles \ {s}
    /\ lastRb' = NoRb
    /\ UNCHANGED <<wr, chain, rollbacks, crp, lssRP>>
    /\ UNCHANGED <<iters, rpLive>>
    /\ UNCHANGED <<pageVars, filterVars, persistVars, indexVars>>

\* the MVCCIterators that are open
OpenIters ==
    LET F[i \in 0..Len(iters)] == IF i = 0 THEN 0 ELSE F[i - 1] + iters[i]
    IN  F[Len(iters)]

\* Snapshot.NewIterator() by a caller that holds the snapshot: s.Open()
ItrNew ==
    /\ OpenIters < MaxIters
    /\ \E s \in handles :
          /\ snaps' = SnapshotOpen(snaps, s)
          /\ iters' = [iters EXCEPT ![s] = @ + 1]
    /\ lastRb' = NoRb
    /\ UNCHANGED <<db, wr, chain, rollbacks, handles, crp, lssRP, nilClose, rpLive>>
    /\ UNCHANGED <<pageVars, filterVars, persistVars, indexVars>>

\* MVCCIterator.Close(): itr.snap.Close()
ItrClose ==
    /\ \E s \in DOMAIN iters :
          /\ iters[s] > 0
          /\ LET r == SnapshotClose([snaps |-> snaps, gcSn |-> db.gcSn, nil |-> nilClose], s)
             IN  /\ snaps' = r.snaps
                 /\ db' = [db EXCEPT !.gcSn = r.gcSn]
                 /\ nilClose' = r.nil
          /\ iters' = [iters EXCEPT ![s] = @ - 1]
    /\ lastRb' = NoRb
    /\ UNCHANGED <<wr, chain, rollbacks, handles, crp, lssRP, rpLive>>
    /\ UNCHANGED <<pageVars, filterVars, persistVars, indexVars>>

\* CreateRecoveryPoint(sn, meta), Prepare: under the MVCC lock
CrpPrepare ==
    /\ crp.pc = "idle"
    /\ \E s \in handles :
          LET rp == [sn |-> s, count |-> snaps[s].count]
              rps == Append(db.recoveryPoints, rp)
          IN  /\ db' = updateRPSns(updateRecoveryPoints(db, rps), rps)
              /\ lssRP' = RPBlock(db, lssRP, rps)
              /\ crp' = [pc |-> "close", sn |-> s, rps |-> rps, ver |-> 0]
              /\ handles' = handles \ {s}
              /\ rpLive' = Append(rpLive, rp)
    /\ lastRb' = NoRb
    /\ UNCHANGED <<snaps, wr, chain, rollbacks, nilClose>>
    /\ UNCHANGED iters
    /\ UNCHANGED <<pageVars, filterVars, persistVars, indexVars>>

\* CreateRecoveryPoint: sn.Close(), outside the lock
CrpClose ==
    /\ crp.pc = "close"
    /\ LET r == SnapshotClose([snaps |-> snaps, gcSn |-> db.gcSn, nil |-> nilClose],
                              crp.sn)
       IN  /\ snaps' = r.snaps
           /\ db' = [db EXCEPT !.gcSn = r.gcSn]
           /\ nilClose' = r.nil
    /\ crp' = [crp EXCEPT !.pc = "persist"]
    /\ lastRb' = NoRb
    /\ UNCHANGED <<wr, chain, rollbacks, handles, lssRP>>
    /\ UNCHANGED <<iters, rpLive>>
    /\ UNCHANGED <<pageVars, filterVars, persistVars, indexVars>>

\* CreateRecoveryPoint: PersistAll(), outside the lock (the pages it flushes
\* are those of SpecPersist)
CrpPersistAll ==
    /\ crp.pc = "persist"
    /\ crp' = [crp EXCEPT !.pc = "commit"]
    /\ lastRb' = NoRb
    /\ UNCHANGED <<db, snaps, wr, chain, rollbacks, handles, lssRP, nilClose>>
    /\ UNCHANGED <<iters, rpLive>>
    /\ UNCHANGED <<pageVars, filterVars, persistVars, indexVars>>

\* CreateRecoveryPoint, Commit: the list of Prepare is written again under
\* the lock; ver (ghost) is the version this write gave the list
CrpCommit ==
    /\ crp.pc = "commit"
    /\ db' = updateRecoveryPoints(db, crp.rps)
    /\ lssRP' = RPBlock(db, lssRP, crp.rps)
    /\ crp' = [crp EXCEPT !.pc = "sync", !.ver = updateRecoveryPoints(db, crp.rps).rpVersion]
    /\ lastRb' = NoRb
    /\ UNCHANGED <<snaps, wr, chain, rollbacks, handles, nilClose>>
    /\ UNCHANGED <<iters, rpLive>>
    /\ UNCHANGED <<pageVars, filterVars, persistVars, indexVars>>

\* CreateRecoveryPoint: lss.Sync(true), outside the lock, and return
CrpSync ==
    /\ crp.pc = "sync"
    /\ crp' = NoCrp
    /\ lastRb' = NoRb
    /\ UNCHANGED <<db, snaps, wr, chain, rollbacks, handles, lssRP, nilClose>>
    /\ UNCHANGED <<iters, rpLive>>
    /\ UNCHANGED <<pageVars, filterVars, persistVars, indexVars>>

\* RemoveRecoveryPoint(rmRP), under the MVCC lock
RemoveRecoveryPoint ==
    /\ \E i \in 1..Len(db.recoveryPoints) :
          LET newRpts == KeepOthers(db.recoveryPoints, db.recoveryPoints[i].sn)
          IN  /\ db' = updateRPSns(updateRecoveryPoints(db, newRpts), newRpts)
              /\ lssRP' = RPBlock(db, lssRP, newRpts)
              /\ rpLive' = SelectSeq(rpLive, LAMBDA rp : rp.sn # db.recoveryPoints[i].sn)
    /\ lastRb' = NoRb
    /\ UNCHANGED <<snaps, wr, chain, rollbacks, handles, crp, nilClose>>
    /\ UNCHANGED iters
    /\ UNCHANGED <<pageVars, filterVars, persistVars, indexVars>>

\* Rollback(rollRP), under the MVCC lock: every page gets the interval
\* [start, end], then itemsCount, newSnapshot, the recovery points and gcSn
Rollback ==
    /\ db.currSn < Len(snaps)
    /\ \E i \in 1..Len(db.recoveryPoints) :
          LET rollRP == db.recoveryPoints[i]
              start == RollbackStart(rollRP)
              end == db.currSn
              r == newSnapshot([db EXCEPT !.itemsCount = rollRP.count], snaps, wr)
              newRpts == KeepUpTo(db.recoveryPoints, rollRP.sn)
          IN  /\ rollbacks' = Append(rollbacks, [start |-> start, end |-> end])
              /\ db' = [updateRecoveryPoints(r.db, newRpts) EXCEPT !.gcSn = r.snap]
              /\ lssRP' = RPBlock(r.db, lssRP, newRpts)
              /\ snaps' = r.snaps
              /\ wr' = r.wr
              /\ handles' = handles \cup {r.snap}
              /\ lastRb' = [op |-> "Rollback", rp |-> rollRP, start |-> start,
                            end |-> end, snap |-> r.snap,
                            visRp |-> Visible(chain, rollbacks, rollRP.sn),
                            pending |-> SumCounts(wr)]
              /\ rpLive' = SelectSeq(rpLive, LAMBDA rp : rp.sn <= rollRP.sn)
    /\ UNCHANGED <<chain, crp, nilClose>>
    /\ UNCHANGED iters
    /\ UNCHANGED <<pageVars, filterVars, persistVars, indexVars>>

NextMvcc ==
    \/ \E w \in Writers : WLoad(w)
    \/ \E w \in Writers : WCount(w)
    \/ \E w \in Writers : WCountStore(w)
    \/ \E w \in Writers : WInsert(w)
    \/ \E w \in Writers : WLookupKV(w)
    \/ NewSnapshot
    \/ SnapClose
    \/ CrpPrepare
    \/ CrpClose
    \/ CrpPersistAll
    \/ CrpCommit
    \/ CrpSync
    \/ RemoveRecoveryPoint
    \/ Rollback

SpecMvcc == InitMvcc /\ [][NextMvcc]_vars

\* the same store in a run without writes, with MaxRpSn Snapshot objects
InitRp ==
    /\ db = [currSn |-> 1, gcSn |-> 0, itemsCount |-> 0, numSnCreated |-> 0,
             lastMaxSn |-> 0, rpVersion |-> 0, currSnapshot |-> 1,
             recoveryPoints |-> <<>>, rpSns |-> <<>>]
    /\ snaps = [s \in 1..MaxRpSn |-> IF s = 1 THEN [NoSnapshot EXCEPT !.refCount = 1]
                                              ELSE NoSnapshot]
    /\ wr = [w \in Writers |-> IdleWriter]
    /\ chain = <<>>
    /\ rollbacks = <<>>
    /\ handles = {}
    /\ crp = NoCrp
    /\ lssRP = [version |-> 0, rps |-> <<>>]
    /\ lastRb = NoRb
    /\ nilClose = FALSE
    /\ iters = [s \in DOMAIN snaps |-> 0]
    /\ rpLive = <<>>
    /\ PageIdle /\ FilterIdle /\ PersistIdle /\ IndexIdle

NextRp ==
    \/ NewSnapshot
    \/ SnapClose
    \/ ItrNew
    \/ ItrClose
    \/ CrpPrepare
    \/ CrpClose
    \/ CrpPersistAll
    \/ CrpCommit
    \/ CrpSync
    \/ RemoveRecoveryPoint
    \/ Rollback

SpecRp == InitRp /\ [][NextRp]_vars

(* ------------------------------ MVCC claims -------------------------- *)
\* the snapshots NewSnapshot or Rollback has returned: every sn below currSn
Returned == {s \in 1..MaxSn : s < db.currSn}

\* C3: no item that is published to a page after NewSnapshot has incremented
\* currSn past S.sn carries an sn <= S.sn, so the items visible to a returned
\* snapshot S are fixed from that increment on.
C3_SnapshotIsolation ==
    \A s \in Returned : \A i \in 1..Len(chain) :
        chain[i].pubSn > s => chain[i].sn > s

InInterval(sn, lo, hi) == lo <= sn /\ sn <= hi

C5_RollbackCount ==
    (lastRb.op = "Rollback") => snaps[lastRb.snap].count = lastRb.rp.count

\* C12 as claimed: each newSnapshot increments currSn by exactly 1, allocates
\* the snapshot of the new currSn with refCount 2, links it as the child of
\* the previous current snapshot, makes it current, and returns that newly
\* allocated snapshot.
C12_ReturnsAllocated ==
    [][db'.currSn # db.currSn =>
          /\ db'.currSn = db.currSn + 1
          /\ snaps'[db'.currSn] = [refCount |-> 2, child |-> NilSnap, count |-> 0]
          /\ snaps'[db.currSnapshot].child = db'.currSn
          /\ db'.currSnapshot = db'.currSn
          /\ handles' \ handles = {db'.currSn}]_vars

\* C12: each newSnapshot increments currSn by exactly 1, allocates the
\* snapshot of the new currSn with refCount 2, links it as the child of the
\* previous current snapshot and makes it current; what it returns is the
\* previous current snapshot, whose sn is currSn before the increment, so
\* the returned sn is above that of every snapshot returned before.
C12_ReturnsPrevious ==
    [][db'.currSn # db.currSn =>
          /\ db'.currSn = db.currSn + 1
          /\ snaps'[db'.currSn] = [refCount |-> 2, child |-> NilSnap, count |-> 0]
          /\ snaps'[db.currSnapshot].child = db'.currSn
          /\ db'.currSnapshot = db'.currSn
          /\ handles' \ handles = {db.currSnapshot}
          /\ db.currSnapshot = db.currSn
          /\ \A h \in handles : h < db.currSnapshot]_vars

\* two calls have returned snapshots 1 and 2, and snapshot 3 is current
C12_Witness ==
    /\ db.currSn = 3 /\ db.currSnapshot = 3
    /\ handles = {1, 2}
    /\ snaps[3].refCount = 2 /\ snaps[2].child = 3

\* C13: a Close of snapshot s decrements its refCount by exactly 1; gcSn
\* advances by 1 for each snapshot whose refCount the call brings to 0 and
\* by nothing else, the child of such a snapshot is closed in turn, and no
\* other snapshot is touched: a Close that leaves refCount > 0 changes
\* neither gcSn nor the child. A snapshot whose refCount is 0 keeps it.
C13_CloseCascade ==
    [][LET closing == IF crp.pc = "close" /\ crp'.pc = "persist" THEN {crp.sn}
                      ELSE IF crp' = crp
                      THEN (handles \ handles')
                               \cup {t \in DOMAIN iters : iters'[t] < iters[t]}
                      ELSE {}
           zeroed == {t \in DOMAIN snaps : snaps[t].refCount > 0 /\ snaps'[t].refCount = 0}
       IN  /\ \A s \in closing :
                 /\ snaps'[s].refCount = snaps[s].refCount - 1
                 /\ db'.gcSn = db.gcSn + Cardinality(zeroed)
                 /\ snaps'[s].refCount > 0 => db'.gcSn = db.gcSn /\ zeroed = {}
                 /\ \A t \in DOMAIN snaps :
                       \/ snaps'[t] = snaps[t] /\ t # s
                       \/ /\ snaps'[t] = [snaps[t] EXCEPT !.refCount = @ - 1]
                          /\ t = s \/ \E u \in zeroed : snaps[u].child = t
                 /\ \A u \in zeroed :
                       /\ snaps[u].child # NilSnap
                       /\ snaps'[snaps[u].child].refCount = snaps[snaps[u].child].refCount - 1
           /\ \A t \in DOMAIN snaps :
                 t <= db.currSn /\ snaps[t].refCount = 0 => snaps'[t].refCount = 0]_vars

\* a Close has brought snapshots 1 and 2 to refCount 0 in one call (gcSn is
\* 2), and snapshot 3, closed by its parent, is still referenced
C13_Witness ==
    /\ snaps[1].refCount = 0 /\ snaps[2].refCount = 0 /\ snaps[3].refCount = 1
    /\ db.gcSn = 2 /\ db.currSn = 3 /\ handles = {}

\* the steps of one CreateRecoveryPoint call, in the order of the code:
\* (1) the list with the new recovery point is installed and written,
\* (2) the caller's snapshot is closed, (3) PersistAll, (4) the list of (1)
\* is installed and written again, (5) the forced sync; each write raises
\* rpVersion by exactly 1 and carries the new version, and no other step of
\* the call writes
CrpStepsInOrder ==
    /\ (crp.pc = "idle" /\ crp' # crp) =>
          /\ crp'.pc = "close"
          /\ crp'.rps = Append(db.recoveryPoints,
                               [sn |-> crp'.sn, count |-> snaps[crp'.sn].count])
          /\ db'.recoveryPoints = crp'.rps
          /\ db'.rpVersion = db.rpVersion + 1
          /\ lssRP' = [version |-> db'.rpVersion, rps |-> crp'.rps]
          /\ snaps' = snaps
    /\ (crp.pc = "close" /\ crp' # crp) =>
          /\ crp'.pc = "persist"
          /\ snaps'[crp.sn].refCount = snaps[crp.sn].refCount - 1
          /\ lssRP' = lssRP /\ db'.rpVersion = db.rpVersion
    /\ (crp.pc = "persist" /\ crp' # crp) =>
          /\ crp'.pc = "commit"
          /\ lssRP' = lssRP /\ db' = db
    /\ (crp.pc = "commit" /\ crp' # crp) =>
          /\ crp'.pc = "sync"
          /\ db'.recoveryPoints = crp.rps
          /\ db'.rpVersion = db.rpVersion + 1
          /\ lssRP' = [version |-> db'.rpVersion, rps |-> crp.rps]
    /\ (crp.pc = "sync" /\ crp' # crp) =>
          /\ crp'.pc = "idle"
          /\ lssRP' = lssRP /\ db' = db

\* the recovery point of the call under way is in the list GetRecoveryPoints
\* returns
CrpListed == \E i \in 1..Len(db.recoveryPoints) :
                 db.recoveryPoints[i] = crp.rps[Len(crp.rps)]

C15_RollbackRecoveryPoints ==
    [][lastRb'.op = "Rollback" =>
          LET kept == {i \in 1..Len(db.recoveryPoints) :
                          db.recoveryPoints[i].sn <= lastRb'.rp.sn}
          IN  /\ Len(db'.recoveryPoints) = Cardinality(kept)
              /\ \A i \in kept :
                    db'.recoveryPoints[Cardinality({j \in kept : j <= i})]
                        = db.recoveryPoints[i]
              /\ \E i \in 1..Len(db'.recoveryPoints) : db'.recoveryPoints[i] = lastRb'.rp
              /\ db'.gcSn = lastRb'.snap
              /\ lastRb'.snap \in handles' \ handles]_vars

\* a rollback to the first of two recovery points has just returned: five
\* versions of the list were written and the second recovery point is gone
C15_Witness ==
    /\ lastRb.op = "Rollback" /\ lastRb.rp.sn = 1
    /\ db.rpVersion = 5
    /\ Len(db.recoveryPoints) = 1 /\ db.recoveryPoints[1].sn = 1
    /\ db.gcSn = 3 /\ lastRb.snap = 3

\* C16: on every MaxSnSyncFrequency-th snapshot creation, counted from
\* numSnCreated = 0, maxSn = sn + MaxSnSyncFrequency + 1 is written (sn is
\* the new currSn) and otherwise it is left alone; and once a snapshot has
\* been created the last written maxSn is above currSn.
C16_MaxSnAhead ==
    /\ [](db.numSnCreated > 0 => db.lastMaxSn > db.currSn)
    /\ [][db'.currSn # db.currSn =>
             /\ db'.numSnCreated = db.numSnCreated + 1
             /\ db'.lastMaxSn = IF db.numSnCreated % MaxSnSyncFrequency = 0
                                THEN db'.currSn + MaxSnSyncFrequency + 1
                                ELSE db.lastMaxSn]_vars

\* maxSn has been written a second time, at creation MaxSnSyncFrequency + 1
C16_Witness ==
    /\ db.numSnCreated = MaxSnSyncFrequency + 1
    /\ db.currSn = MaxSnSyncFrequency + 2
    /\ db.lastMaxSn = db.currSn + MaxSnSyncFrequency + 1

\* the keys whose newest published version is an insert
MvccLiveKeys == {k \in MvccKeys : Newest(chain, k) # <<>> /\ Newest(chain, k)[1].ins}

\* C17: a snapshot that NewSnapshot fixes while no write is under way (and
\* no rollback has been made) has Count() = the number of distinct live
\* keys, also when a key was inserted more than once or a delete targeted an
\* absent key.
C17_CountIsLiveKeys ==
    [][(/\ db'.currSn # db.currSn
        /\ rollbacks' = <<>>
        /\ \A w \in Writers : wr[w].pc = "idle")
          => snaps'[db.currSnapshot].count = Cardinality(MvccLiveKeys)]_vars

\* C18: an InsertKV, DeleteKV or LookupKV whose item construction fails
\* returns ErrKeyTooLarge and changes nothing: every writer's counter, the
\* published items, the snapshots and the store are as before.
C18_KeyTooLargeNoMutation ==
    [][lastRb'.op = "ErrKeyTooLarge" =>
          /\ wr' = wr /\ chain' = chain /\ db' = db /\ snaps' = snaps
          /\ rollbacks' = rollbacks]_vars

\* a call with an oversize key has just failed on a store that holds an
\* item and a pending count
C18_Witness ==
    /\ lastRb.op = "ErrKeyTooLarge"
    /\ Len(chain) = 1
    /\ \E w \in Writers : wr[w].count = 1 /\ wr[w].pc = "idle"

\* C24: NewIterator adds 1 to its snapshot's refCount and MVCCIterator.Close
\* takes 1 off, through Snapshot.Close; while an iterator on S is open, S's
\* refCount is at least the number of its open iterators, so S is not
\* released (its child still holds the reference S gave it), also after
\* the creator has closed S.
C24_IteratorPins ==
    /\ [](\A s \in DOMAIN iters :
             iters[s] > 0 =>
                /\ snaps[s].refCount >= iters[s]
                /\ snaps[s].child # NilSnap => snaps[snaps[s].child].refCount > 0)
    /\ [][\A s \in DOMAIN iters :
             /\ iters'[s] = iters[s] + 1 =>
                   /\ snaps' = [snaps EXCEPT ![s].refCount = @ + 1]
                   /\ db' = db
             /\ iters'[s] = iters[s] - 1 =>
                   snaps'[s].refCount = snaps[s].refCount - 1]_vars

\* an iterator on snapshot 1 is open after the creator has closed snapshot 1
\* and while later snapshots exist: its reference is the only one left
C24_Witness ==
    /\ iters[1] = 1 /\ 1 \notin handles
    /\ snaps[1].refCount = 1
    /\ db.currSn >= 3 /\ db.gcSn = 0
    /\ rollbacks = <<>>

\* C25: with every handle and every iterator closed once, no refCount is
\* negative, the snapshots at refCount 0 are those below some sn (they got
\* there in increasing sn order), a snapshot at 0 has a child, the current
\* snapshot is above 0, and Close was never called on a nil child.
C25_ReleaseOrder ==
    /\ nilClose = FALSE
    /\ snaps[db.currSnapshot].refCount > 0
    /\ \A s \in 1..db.currSn :
          /\ snaps[s].refCount >= 0
          /\ snaps[s].refCount = 0 =>
                /\ snaps[s].child # NilSnap
                /\ \A t \in 1..(s - 1) : snaps[t].refCount = 0

\* snapshots 1 to 3 were released, every handle and iterator is closed,
\* and snapshot 4 is current
C25_Witness ==
    /\ db.currSn = 4
    /\ \A s \in 1..3 : snaps[s].refCount = 0
    /\ snaps[4].refCount = 1
    /\ handles = {} /\ OpenIters = 0

\* C28: gcSn <= currSn, and gcSn is below the sn of every snapshot that
\* has an unreleased reference.
C28_GcSnBehind ==
    /\ db.gcSn <= db.currSn
    /\ \A s \in 1..db.currSn : snaps[s].refCount > 0 => db.gcSn < s

\* C27: without a rollback, itemsCount plus the writers' pending counts is
\* the number of InsertKV calls past their increment less the number of
\* DeleteKV calls past their decrement.
C27_NoLostCount ==
    rollbacks = <<>> =>
        db.itemsCount + SumCounts(wr) = SumCounts([w \in Writers |-> [count |-> wr[w].net]])

\* C26: once every CreateRecoveryPoint, RemoveRecoveryPoint and Rollback
\* call has returned, the recovery-point list in memory and in the last
\* lssRecoveryPoints block written holds exactly the recovery points that
\* were created and neither removed nor truncated by a rollback.
C26_RecoveryPointsSettled ==
    (crp.pc = "idle") =>
        /\ db.recoveryPoints = rpLive
        /\ lssRP.rps = rpLive

(* ------------------------------ Persist ------------------------------ *)
\* the callers of Persist (each with its own wCtx) and the deltas the writer
\* publishes to the page while they run
NumPersistors == 1
MaxMut == 1
\* Config.MaxPageLSSSegments
MaxPageLSSSegments == 1

Persistors == 1..NumPersistors

lssPageData == 1
lssPageReloc == 2
lssPageUpdate == 3
lssPageRemove == 4
lssRecoveryPoints == 5
lssMaxSn == 6
lssDiscard == 7

\* The page as Persist sees it:
\*   ver      the chain head the page table maps (a new head per CAS)
\*   pending  deltas above the newest flush marker (all deltas before a flush)
\*   size     deltas in the chain
\*   fd       there is a flush marker; off, segs, fdSz are what it records
\*   inMem    the chain under the marker is in memory (not evicted)
NewPage ==
    [ver |-> 1, pending |-> 1, size |-> 1, fd |-> FALSE, off |-> 0, segs |-> 0,
     fdSz |-> 0, inMem |-> TRUE]

IdlePersist ==
    [pc |-> "idle", evict |-> FALSE, pg |-> NewPage, base |-> 0, res |-> 0,
     dataSz |-> 0, staleFdSz |-> 0]

NeedsFlush(pg) == pg.pending > 0

IsEvictable(pg) == pg.fd /\ pg.inMem

GetFlushInfo(pg) == [offset |-> pg.off, numSegs |-> pg.segs]

\* pg.Marshal(buf, maxSegments): a further segment while the flushed chain has
\* room for one, else the whole page, which makes the flushed data stale
PgMarshal(pg, maxSegments) ==
    IF pg.fd /\ (pg.segs + 1 <= maxSegments \/ ~pg.inMem)
    THEN [dataSz |-> pg.pending, staleFdSz |-> 0, numSegments |-> pg.segs + 1]
    ELSE [dataSz |-> pg.size, staleFdSz |-> pg.fdSz, numSegments |-> 0]

PgAddFlushRecord(pg, offset, dataSz, numSegments) ==
    [pg EXCEPT !.pending = 0, !.fd = TRUE, !.off = offset, !.segs = numSegments,
               !.fdSz = IF numSegments = 0 THEN dataSz ELSE pg.fdSz + dataSz]

PgEvict(pg, offset, numSegments) ==
    [pg EXCEPT !.pending = 0, !.fd = TRUE, !.off = offset, !.segs = numSegments,
               !.inMem = FALSE]

pgFlushLSSType(numSegments) == IF numSegments > 0 THEN lssPageUpdate ELSE lssPageData

\* a reservation of the log: the block type in its first bytes, how often it
\* was finalized, and (ghost) who reserved it, for which head, and whether
\* the UpdateMapping that followed succeeded
writeLSSBlock(typ, owner, base, dataSz, staleFdSz) ==
    [typ |-> typ, fin |-> 0, owner |-> owner, base |-> base, dataSz |-> dataSz,
     staleFdSz |-> staleFdSz, cas |-> "none"]

\* the block keeps its page type
keepLSSBlock(blk) == blk

discardLSSBlock(blk) == [blk EXCEPT !.typ = lssDiscard]

FinalizeWrite(blk) == [blk EXCEPT !.fin = blk.fin + 1]

\* UpdateMapping(pid, pg): the CAS of the page table entry from the head that
\* was read to the head of pg
UpdateMappingOk(entry, base) == entry.ver = base

InitPersist ==
    /\ pt = NewPage
    /\ lss = <<>>
    /\ pp = [p \in Persistors |-> IdlePersist]
    /\ sts = [p \in Persistors |-> [FlushDataSz |-> 0]]
    /\ nMut = 0
    /\ PageIdle /\ FilterIdle /\ MvccIdle /\ IndexIdle

(* ------------------------------ Persist actions ---------------------- *)
\* a writer publishes a delta to the page (its own CAS succeeds)
Mutate ==
    /\ nMut < MaxMut
    /\ nMut' = nMut + 1
    /\ pt' = [pt EXCEPT !.ver = pt.ver + 1, !.pending = pt.pending + 1,
                        !.size = pt.size + 1]
    /\ UNCHANGED <<lss, pp, sts>>
    /\ UNCHANGED <<pageVars, filterVars, mvccVars, indexVars>>

\* Persist(pid, evict, ctx) up to the branch: ReadPage at the retry label,
\* then NeedsFlush / evict && IsEvictable / return
PersistRead(p) ==
    /\ pp[p].pc \in {"idle", "retry"}
    /\ \E ev \in (IF pp[p].pc = "idle" THEN BOOLEAN ELSE {pp[p].evict}) :
          pp' = [pp EXCEPT ![p] =
                    [IdlePersist EXCEPT
                        !.evict = ev, !.pg = pt, !.base = pt.ver,
                        !.pc = IF NeedsFlush(pt) THEN "flush"
                               ELSE IF ev /\ IsEvictable(pt) THEN "evictonly"
                               ELSE "idle"]]
    /\ UNCHANGED <<pt, lss, sts, nMut>>
    /\ UNCHANGED <<pageVars, filterVars, mvccVars, indexVars>>

\* Marshal, ReserveSpace, writeLSSBlock, then Evict or AddFlushRecord on the
\* caller's copy of the page
PersistWrite(p) ==
    /\ pp[p].pc = "flush"
    /\ LET m == PgMarshal(pp[p].pg, MaxPageLSSSegments)
           offset == Len(lss) + 1
           typ == pgFlushLSSType(m.numSegments)
           pg1 == IF pp[p].evict
                  THEN PgEvict(pp[p].pg, offset, m.numSegments)
                  ELSE PgAddFlushRecord(pp[p].pg, offset, m.dataSz, m.numSegments)
       IN  /\ lss' = Append(lss, writeLSSBlock(typ, p, pp[p].base, m.dataSz, m.staleFdSz))
           /\ pp' = [pp EXCEPT ![p].pc = "cas", ![p].pg = pg1, ![p].res = offset,
                               ![p].dataSz = m.dataSz, ![p].staleFdSz = m.staleFdSz]
    /\ UNCHANGED <<pt, sts, nMut>>
    /\ UNCHANGED <<pageVars, filterVars, mvccVars, indexVars>>

\* ok = s.UpdateMapping(pid, pg, ctx)
PersistCas(p) ==
    /\ pp[p].pc = "cas"
    /\ IF UpdateMappingOk(pt, pp[p].base)
       THEN /\ pt' = [pp[p].pg EXCEPT !.ver = pt.ver + 1]
            /\ pp' = [pp EXCEPT ![p].pc = "ok"]
            /\ lss' = [lss EXCEPT ![pp[p].res].cas = "ok"]
       ELSE /\ pt' = pt
            /\ pp' = [pp EXCEPT ![p].pc = "failed"]
            /\ lss' = [lss EXCEPT ![pp[p].res].cas = "failed"]
    /\ UNCHANGED <<sts, nMut>>
    /\ UNCHANGED <<pageVars, filterVars, mvccVars, indexVars>>

\* ok: FinalizeWrite(res); FlushDataSz += dataSz - staleFdSz; return pg
PersistFinalize(p) ==
    /\ pp[p].pc = "ok"
    /\ lss' = [lss EXCEPT ![pp[p].res] = FinalizeWrite(@)]
    /\ sts' = [sts EXCEPT ![p].FlushDataSz = @ + pp[p].dataSz - pp[p].staleFdSz]
    /\ pp' = [pp EXCEPT ![p].pc = "idle"]
    /\ UNCHANGED <<pt, nMut>>
    /\ UNCHANGED <<pageVars, filterVars, mvccVars, indexVars>>

\* !ok: discardLSSBlock(wbuf)
PersistDiscard(p) ==
    /\ pp[p].pc = "failed"
    /\ lss' = [lss EXCEPT ![pp[p].res] = discardLSSBlock(@)]
    /\ pp' = [pp EXCEPT ![p].pc = "discarded"]
    /\ UNCHANGED <<pt, sts, nMut>>
    /\ UNCHANGED <<pageVars, filterVars, mvccVars, indexVars>>

\* !ok: FinalizeWrite(res); goto retry
PersistFinalizeDiscarded(p) ==
    /\ pp[p].pc = "discarded"
    /\ lss' = [lss EXCEPT ![pp[p].res] = FinalizeWrite(@)]
    /\ pp' = [pp EXCEPT ![p].pc = "retry"]
    /\ UNCHANGED <<pt, sts, nMut>>
    /\ UNCHANGED <<pageVars, filterVars, mvccVars, indexVars>>

\* evict && IsEvictable: GetFlushInfo, Evict, UpdateMapping, or goto retry
PersistEvictOnly(p) ==
    /\ pp[p].pc = "evictonly"
    /\ LET fi == GetFlushInfo(pp[p].pg)
           pg1 == PgEvict(pp[p].pg, fi.offset, fi.numSegs)
       IN  IF UpdateMappingOk(pt, pp[p].base)
           THEN /\ pt' = [pg1 EXCEPT !.ver = pt.ver + 1]
                /\ pp' = [pp EXCEPT ![p].pc = "idle", ![p].pg = pg1]
           ELSE /\ pt' = pt
                /\ pp' = [pp EXCEPT ![p].pc = "retry"]
    /\ UNCHANGED <<lss, sts, nMut>>
    /\ UNCHANGED <<pageVars, filterVars, mvccVars, indexVars>>

NextPersist ==
    \/ Mutate
    \/ \E p \in Persistors : PersistRead(p)
    \/ \E p \in Persistors : PersistWrite(p)
    \/ \E p \in Persistors : PersistCas(p)
    \/ \E p \in Persistors : PersistFinalize(p)
    \/ \E p \in Persistors : PersistDiscard(p)
    \/ \E p \in Persistors : PersistFinalizeDiscarded(p)
    \/ \E p \in Persistors : PersistEvictOnly(p)

SpecPersist == InitPersist /\ [][NextPersist]_vars

(* ------------------------------ Rollback of a page ------------------- *)
\* the wCtx of Rollback's page visitor (persistWriters[shard]); the callers
\* of Persist that run beside it use their own (evictWriters[shard])
RbCaller == 0

\* pg.Rollback(start, end): a rollback delta on top of the chain
PgRollback(pg) == [pg EXCEPT !.pending = pg.pending + 1, !.size = pg.size + 1]

InitRb ==
    /\ pt = NewPage
    /\ lss = <<>>
    /\ pp = [p \in Persistors \cup {RbCaller} |-> IdlePersist]
    /\ sts = [p \in Persistors \cup {RbCaller} |-> [FlushDataSz |-> 0]]
    /\ nMut = 0
    /\ PageIdle /\ FilterIdle /\ MvccIdle /\ IndexIdle

\* callb of Rollback, at the retry label: ReadPage
RbRead ==
    /\ pp[RbCaller].pc \in {"idle", "retry"}
    /\ pp' = [pp EXCEPT ![RbCaller] =
                 [IdlePersist EXCEPT !.pg = pt, !.base = pt.ver, !.pc = "flush"]]
    /\ UNCHANGED <<pt, lss, sts, nMut>>
    /\ UNCHANGED <<pageVars, filterVars, mvccVars, indexVars>>

\* pg.Rollback, Marshal, ReserveSpace, writeLSSBlock, AddFlushRecord,
\* FinalizeWrite and FlushDataSz += fdSz - staleFdSz
RbWrite ==
    /\ pp[RbCaller].pc = "flush"
    /\ LET pg0 == PgRollback(pp[RbCaller].pg)
           m == PgMarshal(pg0, MaxPageLSSSegments)
           offset == Len(lss) + 1
           typ == pgFlushLSSType(m.numSegments)
           pg1 == PgAddFlushRecord(pg0, offset, m.dataSz, m.numSegments)
           blk == writeLSSBlock(typ, RbCaller, pp[RbCaller].base, m.dataSz, m.staleFdSz)
       IN  /\ lss' = Append(lss, FinalizeWrite(blk))
           /\ pp' = [pp EXCEPT ![RbCaller].pc = "cas", ![RbCaller].pg = pg1,
                               ![RbCaller].res = offset, ![RbCaller].dataSz = m.dataSz,
                               ![RbCaller].staleFdSz = m.staleFdSz]
           /\ sts' = [sts EXCEPT ![RbCaller].FlushDataSz = @ + m.dataSz - m.staleFdSz]
    /\ UNCHANGED <<pt, nMut>>
    /\ UNCHANGED <<pageVars, filterVars, mvccVars, indexVars>>

\* if !s.UpdateMapping(pid, pg, w) { goto retry }; return nil
RbCas ==
    /\ pp[RbCaller].pc = "cas"
    /\ IF UpdateMappingOk(pt, pp[RbCaller].base)
       THEN /\ pt' = [pp[RbCaller].pg EXCEPT !.ver = pt.ver + 1]
            /\ pp' = [pp EXCEPT ![RbCaller].pc = "done"]
            /\ lss' = [lss EXCEPT ![pp[RbCaller].res].cas = "ok"]
       ELSE /\ pt' = pt
            /\ pp' = [pp EXCEPT ![RbCaller].pc = "retry"]
            /\ lss' = [lss EXCEPT ![pp[RbCaller].res].cas = "failed"]
    /\ UNCHANGED <<sts, nMut>>
    /\ UNCHANGED <<pageVars, filterVars, mvccVars, indexVars>>

NextRb ==
    \/ NextPersist
    \/ RbRead
    \/ RbWrite
    \/ RbCas

SpecRb == InitRb /\ [][NextRb]_vars

(* ------------------------------ Persist claims ----------------------- *)
PageTypes == {lssPageData, lssPageUpdate}

\* what the finalized, published blocks of caller p add up to
Accounted(p) ==
    LET F[i \in 0..Len(lss)] ==
            IF i = 0 THEN 0
            ELSE IF lss[i].owner = p /\ lss[i].cas = "ok" /\ lss[i].fin = 1
                 THEN F[i - 1] + lss[i].dataSz - lss[i].staleFdSz
                 ELSE F[i - 1]
    IN  F[Len(lss)]

\* C10: every reservation is finalized at most once, and once when the calls
\* have returned; a reservation whose UpdateMapping failed is of type
\* lssDiscard when it is finalized, and the retry reads the page anew (no two
\* reservations of a caller are for the same head); a finalized block of a
\* page type is one whose UpdateMapping succeeded; FlushDataSz of a caller is
\* the sum of dataSz - staleFdSz over its successful flushes.
C10_PersistReservations ==
    /\ \A i \in 1..Len(lss) :
          /\ lss[i].fin <= 1
          /\ (lss[i].fin = 1 /\ lss[i].cas = "failed") => lss[i].typ = lssDiscard
          /\ (lss[i].fin = 1 /\ lss[i].typ \in PageTypes) => lss[i].cas = "ok"
          /\ (lss[i].cas = "ok") => lss[i].typ \in PageTypes
          /\ (lss[i].fin = 1) => lss[i].cas # "none"
          /\ (pp[lss[i].owner].pc \in {"idle", "retry"}) => lss[i].fin = 1
          /\ \A j \in 1..Len(lss) :
                (i # j /\ lss[i].owner = lss[j].owner) => lss[i].base # lss[j].base
    /\ \A p \in Persistors : sts[p].FlushDataSz = Accounted(p)

\* all calls have returned, one after a failed attempt that was discarded and
\* a retry that was flushed and accounted
C10_Witness ==
    /\ \A p \in Persistors : pp[p].pc = "idle"
    /\ \E i, j \in 1..Len(lss) :
          /\ lss[i].owner = lss[j].owner
          /\ lss[i].fin = 1 /\ lss[i].typ = lssDiscard /\ lss[i].cas = "failed"
          /\ lss[j].fin = 1 /\ lss[j].typ \in PageTypes /\ lss[j].cas = "ok"
          /\ sts[lss[j].owner].FlushDataSz > 0

\* C11: an attempt of Rollback's page visitor whose UpdateMapping fails
\* leaves a block that is lssDiscard when finalized and leaves FlushDataSz
\* alone; when the visitor has returned the page has exactly one live block
\* of the rollback in the log and FlushDataSz was adjusted once, for it.
C11_RollbackRetry ==
    /\ \A i \in 1..Len(lss) :
          (lss[i].owner = RbCaller /\ lss[i].fin = 1 /\ lss[i].cas = "failed")
              => lss[i].typ = lssDiscard
    /\ (pp[RbCaller].pc \in {"retry", "done"})
          => sts[RbCaller].FlushDataSz = Accounted(RbCaller)
    /\ (pp[RbCaller].pc = "done")
          => Cardinality({i \in 1..Len(lss) : /\ lss[i].owner = RbCaller
                                              /\ lss[i].fin = 1
                                              /\ lss[i].typ # lssDiscard}) = 1

(* ------------------------------ Skiplist ----------------------------- *)
\* the keys of the items a run inserts
MaxSkipKey == 4
SkipKeys == 1..MaxSkipKey

\* a Seek that stops behind the items equal to k
SeekBehind(items, k) == Cardinality({i \in 1..Len(items) : items[i] <= k}) + 1

\* Iterator.Seek(k): the position of the first item at or above k, or
\* behind the last item
Seek(items, k) == Cardinality({i \in 1..Len(items) : items[i] < k}) + 1

InitIndex ==
    /\ sl = <<>>
    /\ itr = [st |-> "none", seek |-> 0, pos |-> 0]
    /\ got = <<>>
    /\ live = {}
    /\ PageIdle /\ FilterIdle /\ MvccIdle /\ PersistIdle

\* Skiplist.Insert(itm) of a key the list does not hold
SlInsert ==
    /\ itr.st = "none"
    /\ \E k \in SkipKeys :
          /\ \A i \in 1..Len(sl) : sl[i] # k
          /\ LET at == Seek(sl, k)
             IN  sl' = SubSeq(sl, 1, at - 1) \o <<k>> \o SubSeq(sl, at, Len(sl))
          /\ live' = live \cup {k}
    /\ UNCHANGED <<itr, got>>
    /\ UNCHANGED <<pageVars, filterVars, mvccVars, persistVars>>

\* Skiplist.Delete(itm): the item of that key is taken out
SlDelete ==
    /\ itr.st = "none"
    /\ \E k \in SkipKeys :
          /\ sl' = SelectSeq(sl, LAMBDA x : x # k)
          /\ live' = live \ {k}
    /\ UNCHANGED <<itr, got>>
    /\ UNCHANGED <<pageVars, filterVars, mvccVars, persistVars>>

\* NewIterator(), SeekFirst() and Seek(itm)
ItSeek ==
    /\ itr.st = "none"
    /\ \E k \in SkipKeys : itr' = [st |-> "open", seek |-> k, pos |-> Seek(sl, k)]
    /\ got' = <<>>
    /\ UNCHANGED <<sl, live>>
    /\ UNCHANGED <<pageVars, filterVars, mvccVars, persistVars>>

\* one round of the loop: Valid(), Get(), Next()
ItNext ==
    /\ itr.st = "open" /\ itr.pos <= Len(sl)
    /\ got' = Append(got, sl[itr.pos])
    /\ itr' = [itr EXCEPT !.pos = itr.pos + 1]
    /\ UNCHANGED <<sl, live>>
    /\ UNCHANGED <<pageVars, filterVars, mvccVars, persistVars>>

\* the loop is over (Valid() is false) and the iterator is dropped
ItClose ==
    /\ itr.st = "open" /\ itr.pos > Len(sl)
    /\ itr' = [st |-> "none", seek |-> 0, pos |-> 0]
    /\ got' = <<>>
    /\ UNCHANGED <<sl, live>>
    /\ UNCHANGED <<pageVars, filterVars, mvccVars, persistVars>>

NextIndex ==
    \/ SlInsert
    \/ SlDelete
    \/ ItSeek
    \/ ItNext
    \/ ItClose

SpecIndex == InitIndex /\ [][NextIndex]_vars

\* C19: after Inserts and Deletes of distinct keys, an iterator positioned
\* with Seek(k) and advanced with Next while Valid yields keys in ascending
\* order, each once, all of them inserted, not deleted and >= k; when it
\* becomes invalid it has yielded every such key.
C19_SeekYieldsLive ==
    (itr.st = "open") =>
        /\ \A i \in 1..(Len(got) - 1) : got[i] < got[i + 1]
        /\ \A i \in 1..Len(got) : got[i] \in live /\ got[i] >= itr.seek
        /\ (itr.pos > Len(sl)) =>
              \A k \in live : k >= itr.seek => \E i \in 1..Len(got) : got[i] = k

\* as in TestInsert: keys 1..4 were inserted and 4 deleted, and the iterator
\* sought to 2 has yielded 2 and 3 and is invalid
C19_Witness ==
    /\ itr.st = "open" /\ itr.seek = 2 /\ itr.pos > Len(sl)
    /\ live = {1, 2, 3} /\ sl = <<1, 2, 3>>
    /\ got = <<2, 3>>

====
